---- MODULE Spec2Model ----
(***************************************************************************)
(* A model of the Giles rule compiler (src/giles): the expression          *)
(* evaluator of expression.py (type checking, constant folding, AST        *)
(* construction), the rule analyser and driver of giles.py (main) and the  *)
(* cycle checker (find_cycle).                                             *)
(*                                                                         *)
(* Representation.                                                         *)
(*  - A Python type object is one of the strings "bool", "int", "float",   *)
(*    "str".                                                               *)
(*  - A literal is [k |-> "lit", type, v], v a sequence of integers: <<n>>  *)
(*    for the int n, <<1>> and <<0>> for True and False, the character     *)
(*    codes for a str, and <<q>> for the float of q quarters (1.5 is       *)
(*    <<6>>); float results are truncated to quarters.                     *)
(*  - An AST node is a record whose k names its class.                     *)
(*  - A raised exception is [k |-> "err", msg].                            *)
(*  - Python's None is the empty tuple <<>>, any other optional value x    *)
(*    is <<x>>.                                                            *)
(***************************************************************************)
EXTENDS Integers, Sequences, FiniteSets, TLC

VARIABLES
    \* ---- the expression evaluator (Parser.evaluate applying callbacks)
    exprParser,   \* the Parser object of the expression being evaluated
    acc,          \* the value the last callback returned (or the leaf)
    depth,        \* how many callbacks were applied to build acc
    last,         \* the last application: operator, arguments, result
    \* ---- find_cycle / find_reachable
    rules,        \* the rule IR: rule name -> rule record
    todo,         \* find_cycle's todo set
    stack,        \* find_cycle's stack
    cycle,        \* find_cycle's return value: <<>> while running, else <<value>>
    \* ---- main
    pc,           \* where main is
    errors,       \* the module-level error count of giles.py
    arguments,    \* the parsed command line
    constants,    \* main's constants map
    functions,    \* main's functions map
    parameters,   \* main's parameters map
    facts,        \* main's fact map
    distincts,    \* main's set of distinctly-produced facts
    todoDoc,      \* how many constants, parameters and rules are still to be read
    log,          \* what happened to the items processed so far (history)
    domains,      \* sqlite_backend.domains
    indexes,      \* sqlite_backend.indexes
    schema_file,  \* what was written to the schema output: <<>> or <<schema>>
    exit_status,  \* the status of the last finished invocation: <<>> or <<n>>
    invocation,   \* how many times main was entered in this process
    limits,       \* the largest documents and the number of invocations explored
    \* ---- pyre.Parser.parse
    tokens,       \* the tokens the tokenizer has yielded so far (history)
    output,       \* parse's output list
    opstack,      \* parse's stack list
    last_token,   \* parse's last_token: <<>> or <<token>>
    parsed,       \* what parse returned or raised: <<>> while it runs
    \* ---- sqlite_backend's index demands
    demands,      \* the add_index calls made so far (history)
    last_join,    \* the last call of generate_join and what it did (history)
    emitted,      \* the CREATE INDEX lines generate appended: <<>> or <<lines>>
    printed,      \* the only_once calls made so far and what each returned (history)
    \* ---- validate.Dictionary.__call__
    validator,    \* the Dictionary object called
    obj,          \* the object it is called with
    checked,      \* what the call returned or raised: <<>> before the call
    \* ---- caseless_string.CaselessString
    identifiers,  \* the CaselessString objects constructed so far
    sources,      \* what each was constructed from (history)
    compared      \* the last comparison of two of them and its results (history)

vars == <<exprParser, acc, depth, last, rules, todo, stack, cycle, pc, errors, arguments,
          constants, functions, parameters, facts, distincts, todoDoc, log,
          domains, indexes, schema_file, exit_status, invocation, limits,
          tokens, output, opstack, last_token, parsed,
          demands, last_join, emitted, printed, validator, obj, checked,
          identifiers, sources, compared>>

exprVars == <<exprParser, acc, depth, last>>
cycleVars == <<todo, stack, cycle>>
mainVars == <<pc, errors, arguments, constants, functions, parameters, facts,
              distincts, todoDoc, log, domains, indexes, schema_file,
              exit_status, invocation, limits>>
parseVars == <<tokens, output, opstack, last_token, parsed>>
backendVars == <<demands, last_join, emitted, printed>>
validateVars == <<validator, obj, checked>>
caselessVars == <<identifiers, sources, compared>>
sideVars == <<parseVars, backendVars, validateVars, caselessVars>>

----------------------------------------------------------------------------
(* Values                                                                  *)

None == <<>>
Some(x) == <<x>>
EmptyMap == <<>>

Types == {"bool", "int", "float", "str"}

Lit(t, v) == [k |-> "lit", type |-> t, v |-> v]
IntLit(n) == Lit("int", <<n>>)
FloatLit(q) == Lit("float", <<q>>)
BoolLit(b) == Lit("bool", <<IF b THEN 1 ELSE 0>>)
StrLit(s) == Lit("str", s)
\* the number a numeric literal holds, the truth value a bool literal holds
Num(x) == x.v[1]
Truth(x) == x.v[1] = 1
Err(m) == [k |-> "err", msg |-> m]
IsErr(x) == x.k = "err"
IsLit(x) == x.k = "lit"
IsNode(x) == x.k \notin {"lit", "err"}

\* isinstance(x, C) for the node classes
IsInstance(x, class) == x.k = class

ThisReferenceNode(variable, type) ==
    [k |-> "ThisReferenceNode", type |-> type, variable |-> variable]

LocalReferenceNode(variable, type) ==
    [k |-> "LocalReferenceNode", type |-> type, variable |-> variable]

\* BinaryOpNode.__init__: the type is arg1's unless a kind is passed in
BinaryOpNode(operation, arg1, arg2, kind, readable_name) ==
    [k |-> "BinaryOpNode", operation |-> operation,
     name |-> IF readable_name # None THEN readable_name[1] ELSE operation,
     arg1 |-> arg1, arg2 |-> arg2,
     type |-> IF kind # None THEN kind[1] ELSE arg1.type]

UnaryOpNode(operation, arg1) ==
    [k |-> "UnaryOpNode", operation |-> operation, arg1 |-> arg1, type |-> arg1.type]

IfNode(predicate, if_true, if_false) ==
    [k |-> "IfNode", predicate |-> predicate, if_true |-> if_true,
     if_false |-> if_false, type |-> if_true.type]

CastNode(expression, cast_to) ==
    [k |-> "CastNode", expression |-> expression, type |-> cast_to]

JoinNode(arg1, arg2) ==
    [k |-> "JoinNode", left |-> arg1, right |-> arg2, type |-> "bool"]

FunctionNode(name, external, returns, args) ==
    [k |-> "FunctionNode", name |-> name, external |-> external,
     type |-> returns, args |-> args]

----------------------------------------------------------------------------
(* Python's arithmetic, comparisons and conversions on literals            *)

PyFloorDiv(a, b) == IF b > 0 THEN a \div b ELSE (0 - a) \div (0 - b)
PyMod(a, b) == a - b * PyFloorDiv(a, b)
\* truncation towards zero, as int(float) and the quarter representation do
TruncDiv(a, b) ==
    IF (a >= 0) = (b > 0) \/ a = 0
    THEN (IF a >= 0 THEN a \div b ELSE (0 - a) \div (0 - b))
    ELSE 0 - (IF a >= 0 THEN a \div (0 - b) ELSE (0 - a) \div b)

RECURSIVE SeqLess(_, _)
\* lexicographic order of two character sequences (str.__lt__)
SeqLess(s, t) ==
    IF t = <<>> THEN FALSE
    ELSE IF s = <<>> THEN TRUE
    ELSE IF Head(s) # Head(t) THEN Head(s) < Head(t)
    ELSE SeqLess(Tail(s), Tail(t))

\* a < b on two literals of one type (False < True for bools): in the
\* representation every literal is a sequence, a number one of length 1
LitLess(a, b) == SeqLess(a.v, b.v)

RECURSIVE Digits(_)
\* the decimal digits of a natural number, as character codes
Digits(n) == IF n < 10 THEN <<48 + n>> ELSE Digits(n \div 10) \o <<48 + (n % 10)>>

\* str(int)
StrOfInt(n) == IF n < 0 THEN <<45>> \o Digits(0 - n) ELSE Digits(n)

\* str(float), for a float held in quarters: "1.0", "0.25", "-2.5"
StrOfFloat(q) ==
    LET a == IF q < 0 THEN 0 - q ELSE q
        frac == CASE a % 4 = 0 -> <<48>>
                  [] a % 4 = 1 -> <<50, 53>>
                  [] a % 4 = 2 -> <<53>>
                  [] OTHER -> <<55, 53>>
    IN  (IF q < 0 THEN <<45>> ELSE <<>>) \o Digits(a \div 4) \o <<46>> \o frac

\* str(bool): "True" or "False"
StrOfBool(b) == IF b THEN <<84, 114, 117, 101>> ELSE <<70, 97, 108, 115, 101>>

IsDigit(c) == c >= 48 /\ c <= 57

RECURSIVE DigitsValue(_, _)
DigitsValue(s, sofar) ==
    IF s = <<>> THEN sofar ELSE DigitsValue(Tail(s), 10 * sofar + (Head(s) - 48))

\* int(str): an optional sign and at least one digit, else ValueError
IntOfStr(s) ==
    LET signed == s # <<>> /\ Head(s) \in {43, 45}
        body == IF signed THEN Tail(s) ELSE s
    IN  IF body = <<>> \/ \E i \in 1..Len(body) : ~IsDigit(body[i])
        THEN Err("invalid literal for int()")
        ELSE IntLit(IF signed /\ Head(s) = 45 THEN 0 - DigitsValue(body, 0)
                    ELSE DigitsValue(body, 0))

RECURSIVE LikeMatch(_, _)
\* re.match("^" + pattern + "$", s) for a like-pattern: % is .*, _ is .
LikeMatch(p, s) ==
    IF p = <<>> THEN s = <<>>
    ELSE IF Head(p) = 37
         THEN LikeMatch(Tail(p), s) \/ (s # <<>> /\ LikeMatch(p, Tail(s)))
    ELSE IF s = <<>> THEN FALSE
    ELSE (Head(p) = 95 \/ Head(p) = Head(s)) /\ LikeMatch(Tail(p), Tail(s))

RECURSIVE RegexpMatch(_, _)
\* re.match(pattern, s) for the patterns of the model: ordinary characters
\* and "." (any character); the match is anchored at the start only
RegexpMatch(p, s) ==
    IF p = <<>> THEN TRUE
    ELSE IF s = <<>> THEN FALSE
    ELSE (Head(p) = 46 \/ Head(p) = Head(s)) /\ RegexpMatch(Tail(p), Tail(s))

----------------------------------------------------------------------------
(* Python's operators on literals and nodes (DefaultOperationsMixin)       *)

ArithmeticOps == {"+", "-", "*", "/", "%"}
ComparisonOps == {"==", "<=", ">=", "!=", "<", ">"}

\* the value of  a <op> b  for two literals of the same type
FoldArithmetic(op, a, b) ==
    CASE op = "+" -> Lit(a.type, <<Num(a) + Num(b)>>)
      [] op = "-" -> Lit(a.type, <<Num(a) - Num(b)>>)
      [] op = "*" -> Lit(a.type, <<IF a.type = "float" THEN TruncDiv(Num(a) * Num(b), 4)
                                   ELSE Num(a) * Num(b)>>)
      [] op = "/" -> IF Num(b) = 0 THEN Err("division by zero")
                     ELSE FloatLit(TruncDiv(4 * Num(a), Num(b)))
      [] op = "%" -> IF Num(b) = 0 THEN Err("integer division or modulo by zero")
                     ELSE Lit(a.type, <<PyMod(Num(a), Num(b))>>)

FoldComparison(op, a, b) ==
    BoolLit(CASE op = "==" -> a.v = b.v
              [] op = "!=" -> a.v # b.v
              [] op = "<" -> LitLess(a, b)
              [] op = ">" -> LitLess(b, a)
              [] op = "<=" -> ~LitLess(b, a)
              [] op = ">=" -> ~LitLess(a, b))

\* the operation name a node's comparison method records
ComparisonSymbol(op) == IF op = "==" THEN "=" ELSE op

\* the reflected comparison Python calls on the right operand
Swapped(op) ==
    CASE op = "<" -> ">"
      [] op = ">" -> "<"
      [] op = "<=" -> ">="
      [] op = ">=" -> "<="
      [] OTHER -> op

\* arg1 <op> arg2 as Python evaluates it: two literals fold; a node on the
\* left builds the node; a literal on the left defers to the node's
\* reflected method (__radd__ keeps the operand order, __gt__ for < swaps it)
PyBinary(op, arg1, arg2) ==
    IF IsLit(arg1) /\ IsLit(arg2)
    THEN (IF op \in ArithmeticOps THEN FoldArithmetic(op, arg1, arg2)
          ELSE FoldComparison(op, arg1, arg2))
    ELSE IF op \in ArithmeticOps
    THEN BinaryOpNode(op, arg1, arg2, None, None)
    ELSE IF IsNode(arg1)
    THEN BinaryOpNode(ComparisonSymbol(op), arg1, arg2, Some("bool"), None)
    ELSE BinaryOpNode(ComparisonSymbol(Swapped(op)), arg2, arg1, Some("bool"), None)

----------------------------------------------------------------------------
(* type_check and the parser's operators and functions (expression.py)     *)

\* the type the checker sees: arg.type for a node, type(arg) for a literal
TypeOf(arg) == arg.type

ArgTypes(args) == [i \in 1..Len(args) |-> TypeOf(args[i])]

\* a type checker that promotes an int operand to float where a float is listed
PromotingTypeCheck(combinations, args) ==
    \E c \in combinations :
        /\ Len(c) = Len(args)
        /\ \A i \in 1..Len(c) :
              ArgTypes(args)[i] = c[i] \/ (ArgTypes(args)[i] = "int" /\ c[i] = "float")

\* the wrapper of type_check: TRUE when the operand types are accepted
TypeCheck(combinations, args) == ArgTypes(args) \in combinations

TypeError == Err("Invalid types for function/operator")

SameTypePairs == {<<t, t>> : t \in Types}

BinaryOperators ==
    {"+", "-", "*", "/", "%", "==", "<=", ">=", "!=", "<", ">", "||", "&&",
     "~", "!~", "like", "unlike", "and", "."}

UnaryOperators == {"+", "-", "not"}

BuiltinFunctions ==
    {"string_of_bool", "string_of_real", "string_of_int", "real_of_int",
     "int_of_real", "int_of_string", "if"}

\* the arguments of the type_check decorator of each binary operator
BinaryCombinations(op) ==
    CASE op \in {"+", "-", "*", "/"} -> {<<"float", "float">>, <<"int", "int">>}
      [] op = "%" -> {<<"int", "int">>}
      [] op \in ComparisonOps -> SameTypePairs
      [] op \in {"||", "&&", "and"} -> {<<"bool", "bool">>}
      [] OTHER -> {<<"str", "str">>}

UnaryCombinations(op) ==
    IF op = "not" THEN {<<"bool">>} ELSE {<<"float">>, <<"int">>}

FunctionCombinations(fn) ==
    CASE fn = "string_of_bool" -> {<<"bool">>}
      [] fn \in {"string_of_real", "int_of_real"} -> {<<"float">>}
      [] fn \in {"string_of_int", "real_of_int"} -> {<<"int">>}
      [] fn = "int_of_string" -> {<<"str">>}
      [] fn = "if" -> {<<"bool", t, t>> : t \in Types}

\* Parser.__init__: a this of None becomes the empty map
ParserInit(consts, variables, this, allow_regexp, funcs) ==
    [constants |-> consts, variables |-> variables,
     this |-> IF this # None THEN this ELSE Some(EmptyMap),
     allow_regexp |-> allow_regexp, functions |-> funcs]

\* an || that builds its node without looking for literal operands
operator_or_unfolded(arg1, arg2) == BinaryOpNode("OR", arg1, arg2, None, None)

operator_or(arg1, arg2) ==
    IF IsLit(arg1) /\ IsLit(arg2) THEN BoolLit(Truth(arg1) \/ Truth(arg2))
    ELSE BinaryOpNode("OR", arg1, arg2, None, None)

operator_and(arg1, arg2) ==
    IF IsLit(arg1) /\ IsLit(arg2) THEN BoolLit(Truth(arg1) /\ Truth(arg2))
    ELSE BinaryOpNode("AND", arg1, arg2, None, None)

operator_regexp(parser, arg1, arg2, negate) ==
    IF ~parser.allow_regexp
    THEN Err("regular expressions in expressions are disabled")
    ELSE IF IsLit(arg1) /\ IsLit(arg2)
    THEN BoolLit(RegexpMatch(arg2.v, arg1.v) # negate)
    ELSE BinaryOpNode(IF negate THEN "NOT REGEXP" ELSE "REGEXP", arg1, arg2,
                      Some("bool"), None)

operator_like(arg1, arg2, negate) ==
    IF IsLit(arg1) /\ IsLit(arg2)
    THEN BoolLit(LikeMatch(arg2.v, arg1.v) # negate)
    ELSE BinaryOpNode(IF negate THEN "NOT LIKE" ELSE "LIKE", arg1, arg2,
                      Some("bool"), None)

operator_join(parser, arg1, arg2) ==
    IF parser.this = None
    THEN Err("Logical conjunctions of conditions are valid only in match predicates")
    ELSE JoinNode(arg1, arg2)

operator_concat(arg1, arg2) ==
    IF IsLit(arg1) /\ IsLit(arg2) THEN StrLit(arg1.v \o arg2.v)
    ELSE BinaryOpNode("||", arg1, arg2, None, Some("."))

\* the body of the callback of a binary operator
BinaryCallback(parser, op, arg1, arg2) ==
    CASE op \in ArithmeticOps \cup ComparisonOps -> PyBinary(op, arg1, arg2)
      [] op = "||" -> operator_or(arg1, arg2)
      [] op = "&&" -> operator_and(arg1, arg2)
      [] op = "~" -> operator_regexp(parser, arg1, arg2, FALSE)
      [] op = "!~" -> operator_regexp(parser, arg1, arg2, TRUE)
      [] op = "like" -> operator_like(arg1, arg2, FALSE)
      [] op = "unlike" -> operator_like(arg1, arg2, TRUE)
      [] op = "and" -> operator_join(parser, arg1, arg2)
      [] op = "." -> operator_concat(arg1, arg2)

\* a binary operator as the parser calls it: type_check, then the callback
ApplyBinary(parser, op, arg1, arg2) ==
    IF ~TypeCheck(BinaryCombinations(op), <<arg1, arg2>>) THEN TypeError
    ELSE BinaryCallback(parser, op, arg1, arg2)

UnaryCallback(op, arg1) ==
    CASE op = "+" -> arg1
      [] op = "-" -> IF IsLit(arg1) THEN Lit(arg1.type, <<0 - Num(arg1)>>)
                     ELSE UnaryOpNode("neg", arg1)
      [] op = "not" -> IF IsLit(arg1) THEN BoolLit(~Truth(arg1))
                       ELSE UnaryOpNode("NOT", arg1)

ApplyUnary(op, arg1) ==
    IF ~TypeCheck(UnaryCombinations(op), <<arg1>>) THEN TypeError
    ELSE UnaryCallback(op, arg1)

BuiltinCallback(fn, args) ==
    CASE fn = "string_of_bool" ->
           IF IsLit(args[1]) THEN StrLit(StrOfBool(Truth(args[1])))
           ELSE CastNode(args[1], "str")
      [] fn = "string_of_real" ->
           IF IsLit(args[1]) THEN StrLit(StrOfFloat(Num(args[1])))
           ELSE CastNode(args[1], "str")
      [] fn = "string_of_int" ->
           IF IsLit(args[1]) THEN StrLit(StrOfInt(Num(args[1])))
           ELSE CastNode(args[1], "str")
      [] fn = "real_of_int" ->
           IF IsLit(args[1]) THEN FloatLit(4 * Num(args[1]))
           ELSE CastNode(args[1], "float")
      [] fn = "int_of_real" ->
           IF IsLit(args[1]) THEN IntLit(TruncDiv(Num(args[1]), 4))
           ELSE CastNode(args[1], "int")
      [] fn = "int_of_string" ->
           IF IsLit(args[1]) THEN IntOfStr(args[1].v)
           ELSE CastNode(args[1], "int")
      [] fn = "if" ->
           IF IsLit(args[1]) THEN (IF Truth(args[1]) THEN args[2] ELSE args[3])
           ELSE IfNode(args[1], args[2], args[3])

ApplyBuiltin(fn, args) ==
    IF ~TypeCheck(FunctionCombinations(fn), args) THEN TypeError
    ELSE BuiltinCallback(fn, args)

\* the callback build_function_node makes for a declared external function;
\* clause is the function's declaration after "Link SQL Functions"
build_function_node(name, clause, args) ==
    IF Len(args) # Len(clause.Parameters)
    THEN Err("Invalid number of arguments to function")
    ELSE IF ArgTypes(args) # clause.Parameters
    THEN Err("Invalid type(s) for argument(s) to function")
    ELSE FunctionNode(name, clause.External, clause.Returns, args)

\* a function token as the parser resolves and calls it: evaluate() adds the
\* declared functions to the parser after (so over) the built-in ones
ApplyFunction(parser, fn, args) ==
    IF fn \in DOMAIN parser.functions
    THEN build_function_node(fn, parser.functions[fn], args)
    ELSE IF fn \in BuiltinFunctions THEN ApplyBuiltin(fn, args)
    ELSE Err("Unknown function")

----------------------------------------------------------------------------
(* The expression evaluator as a state machine: Parser.evaluate applies    *)
(* one callback per step to already evaluated operands.  acc is the value  *)
(* built so far, the other operands are leaves as the tokenizer makes      *)
(* them (literals, This and Locals references).                            *)

MaxDepth == 1

\* the fields of the fact being matched and the rule's locals, by type
ThisFields == [i |-> "int", r |-> "float", b |-> "bool", s |-> "str"]
LocalVars == [n |-> "int", t |-> "str"]

\* a declared external function, after "Link SQL Functions"
DeclaredFunctions ==
    [ext |-> [External |-> "c_ext", Parameters |-> <<"int", "str">>, Returns |-> "float"]]

LiteralLeaves ==
    {BoolLit(TRUE), BoolLit(FALSE),
     IntLit(0), IntLit(2), IntLit(4),
     FloatLit(2),
     StrLit(<<97>>), StrLit(<<49>>)}

NodeLeaves ==
    {ThisReferenceNode(f, ThisFields[f]) : f \in DOMAIN ThisFields}
    \cup {LocalReferenceNode(v, LocalVars[v]) : v \in DOMAIN LocalVars}

Leaves == LiteralLeaves \cup NodeLeaves

NoApplication == [kind |-> "leaf", op |-> "", args |-> <<>>, result |-> Err("")]

Applied(kind, op, args, result) ==
    [kind |-> kind, op |-> op, args |-> args, result |-> result]

ExprInit ==
    /\ \E this \in {None, Some(ThisFields)}, allow_regexp \in BOOLEAN :
         exprParser = ParserInit(EmptyMap, LocalVars, this, allow_regexp, DeclaredFunctions)
    /\ acc \in Leaves
    /\ depth = 0
    /\ last = NoApplication

CanApply == depth < MaxDepth /\ ~IsErr(acc)

Step(kind, op, args, result) ==
    /\ acc' = result
    /\ depth' = depth + 1
    /\ last' = Applied(kind, op, args, result)
    /\ UNCHANGED <<exprParser, rules, cycleVars, mainVars, sideVars>>

\* Parser.evaluate, BinaryOperator branch
EvaluateBinary ==
    /\ CanApply
    /\ \E op \in BinaryOperators, other \in Leaves, accLeft \in BOOLEAN :
         LET arg1 == IF accLeft THEN acc ELSE other
             arg2 == IF accLeft THEN other ELSE acc
         IN  Step("binary", op, <<arg1, arg2>>, ApplyBinary(exprParser, op, arg1, arg2))

\* Parser.evaluate, UnaryOperator branch
EvaluateUnary ==
    /\ CanApply
    /\ \E op \in UnaryOperators : Step("unary", op, <<acc>>, ApplyUnary(op, acc))

\* the argument lists a call is tried with: none, acc alone, acc with leaves
CallArguments ==
    {<<>>, <<acc>>}
    \cup {<<acc, x>> : x \in Leaves}
    \cup {<<x, acc, acc>> : x \in Leaves}
    \cup {<<acc, x, x>> : x \in Leaves}

\* Parser.evaluate, FunctionInvocation branch
EvaluateFunction ==
    /\ CanApply
    /\ \E fn \in BuiltinFunctions \cup DOMAIN DeclaredFunctions, args \in CallArguments :
         Step(IF fn \in DOMAIN exprParser.functions THEN "external" ELSE "builtin",
              fn, args, ApplyFunction(exprParser, fn, args))

ExprNext == EvaluateBinary \/ EvaluateUnary \/ EvaluateFunction

----------------------------------------------------------------------------
(* pyre.Parser.parse: the shunting-yard loop over the token stream, one    *)
(* step per token, then the evaluation of the output list                  *)
(*                                                                         *)
(* A token is a record of its class (k), or an operand: the value the      *)
(* tokenizer rule returned.  The entries of the stack are Operator and     *)
(* FunctionInvocation objects and open parentheses; the top of a list is   *)
(* its prev element.                                                       *)

OperatorToken(name) == [k |-> "OperatorToken", name |-> name]
FunctionToken(name) == [k |-> "FunctionToken", name |-> name]
OpenParenToken == [k |-> "OpenParenToken"]
CloseParenToken == [k |-> "CloseParenToken"]
ArgumentSeparatorToken == [k |-> "ArgumentSeparatorToken"]

TokenClasses ==
    {"OperatorToken", "FunctionToken", "OpenParenToken", "CloseParenToken",
     "ArgumentSeparatorToken"}

IsToken(x) == x.k \in TokenClasses

\* the precedence argument of the binary_operator decorator of each operator
BinaryPrecedence(name) ==
    CASE name \in {"+", "-"} -> 10
      [] name \in {"*", "/", "%", "."} -> 20
      [] name = "||" -> 30
      [] name = "&&" -> 40
      [] name = "and" -> 0
      [] OTHER -> 5

UnaryPrecedence == 98

\* add_binary_operator: associativity is the decorator's default, "left"
BinaryOperator(name) ==
    [k |-> "BinaryOperator", name |-> name, precedence |-> BinaryPrecedence(name),
     associativity |-> "left"]

\* add_unary_operator: associativity is the decorator's default, "right"
UnaryOperator(name) ==
    [k |-> "UnaryOperator", name |-> name, precedence |-> UnaryPrecedence,
     associativity |-> "right"]

FunctionInvocation(name) == [k |-> "FunctionInvocation", name |-> name, argcount |-> 0]

IsOperator(x) == x.k \in {"BinaryOperator", "UnaryOperator"}

Top(list) == list[Len(list)]
Pop(list) == SubSeq(list, 1, Len(list) - 1)

\* the parser expressions are parsed with here: This and Locals declared,
\* no external function
ParseParser == ParserInit(EmptyMap, LocalVars, Some(ThisFields), FALSE, EmptyMap)

KnownFunctions(psr) == BuiltinFunctions \cup DOMAIN psr.functions

Raised(msg) == [ok |-> FALSE, msg |-> msg]
Lists(out, stk) == [ok |-> TRUE, output |-> out, stack |-> stk]

\* a pop condition that looks at the precedences only
must_pop_by_precedence_only(o1, top) == o1.precedence < top.precedence

\* the condition of the while loop of the operator branch
must_pop(o1, top) ==
    \/ o1.associativity = "left" /\ o1.precedence = top.precedence
    \/ o1.precedence < top.precedence

\* the while loop of the operator branch, then stack.append(o1)
RECURSIVE push_operator(_, _, _)
push_operator(o1, out, stk) ==
    IF Len(stk) > 0 /\ IsOperator(Top(stk)) /\ must_pop(o1, Top(stk))
    THEN push_operator(o1, Append(out, Top(stk)), Pop(stk))
    ELSE Lists(out, Append(stk, o1))

\* while len(stack) > 0 and not isinstance(stack[-1], OpenParenToken)
RECURSIVE pop_to_paren(_, _)
pop_to_paren(out, stk) ==
    IF Len(stk) > 0 /\ Top(stk).k # "OpenParenToken"
    THEN pop_to_paren(Append(out, Top(stk)), Pop(stk))
    ELSE Lists(out, stk)

\* the argument separator branch after its while loop
separator_counted(popped) ==
    LET stk == popped.stack
        n == Len(stk)
    IN  IF n < 2 \/ stk[n - 1].k # "FunctionInvocation"
        THEN Raised("MismatchedParenthesesException")
        ELSE Lists(popped.output,
                   [stk EXCEPT ![n - 1].argcount =
                        IF @ = 0 THEN 2 ELSE @ + 1])

\* the close parenthesis branch after its while loop
paren_closed(popped, prev) ==
    IF Len(popped.stack) = 0 THEN Raised("MismatchedParenthesesException")
    ELSE LET stk == Pop(popped.stack)
         IN  IF Len(stk) > 0 /\ Top(stk).k = "FunctionInvocation"
             THEN LET func == Top(stk)
                      counted == IF prev # Some(OpenParenToken) /\ func.argcount = 0
                                 THEN [func EXCEPT !.argcount = 1] ELSE func
                  IN  Lists(Append(popped.output, counted), Pop(stk))
             ELSE Lists(popped.output, stk)

\* the body of the for loop of parse for one token
parse_token(psr, token, prev, out, stk) ==
    CASE token.k = "FunctionToken" ->
           IF token.name \notin KnownFunctions(psr)
           THEN Raised("UnknownFunctionException")
           ELSE Lists(out, Append(stk, FunctionInvocation(token.name)))
      [] token.k = "ArgumentSeparatorToken" ->
           IF prev = None \/ IsOperator(prev[1]) \/ prev = Some(OpenParenToken)
           THEN Raised("MismatchedParenthesesException")
           ELSE separator_counted(pop_to_paren(out, stk))
      [] token.k = "OperatorToken" ->
           LET unary == \/ prev = None
                        \/ prev[1].k = "OperatorToken"
                        \/ prev[1].k = "OpenParenToken"
           IN  IF unary
               THEN IF token.name \notin UnaryOperators
                    THEN Raised("UnknownOperatorException")
                    ELSE push_operator(UnaryOperator(token.name), out, stk)
               ELSE IF token.name \notin BinaryOperators
                    THEN Raised("UnknownOperatorException")
                    ELSE push_operator(BinaryOperator(token.name), out, stk)
      [] token.k = "OpenParenToken" -> Lists(out, Append(stk, token))
      [] token.k = "CloseParenToken" ->
           IF prev = Some(ArgumentSeparatorToken)
           THEN Raised("MismatchedParenthesesException")
           ELSE paren_closed(pop_to_paren(out, stk), prev)
      [] OTHER ->
           IF prev # None /\ ~(IsOperator(prev[1]) \/ IsToken(prev[1]))
           THEN Raised("ExtraInputException")
           ELSE Lists(Append(out, token), stk)

\* the while loop after the for loop of parse
RECURSIVE drain(_, _)
drain(out, stk) ==
    IF Len(stk) = 0 THEN Lists(out, stk)
    ELSE IF Top(stk).k \in {"OpenParenToken", "CloseParenToken"}
    THEN Raised("MismatchedParenthesesException")
    ELSE drain(Append(out, Top(stk)), Pop(stk))

Value(v, stk) == [value |-> v, stack |-> stk]

\* a callback called with evaluated arguments; an exception raised while an
\* argument was evaluated has left evaluate before the call
called_unary(operator, r1) ==
    IF IsErr(r1.value) THEN r1
    ELSE Value(ApplyUnary(operator.name, r1.value), r1.stack)

called_binary(psr, operator, r2, r1) ==
    IF IsErr(r1.value) THEN r1
    ELSE Value(ApplyBinary(psr, operator.name, r1.value, r2.value), r1.stack)

RECURSIVE Parser_evaluate(_, _)
RECURSIVE invoke(_, _, _, _, _)

second_evaluated(psr, operator, r2) ==
    IF IsErr(r2.value) THEN r2
    ELSE called_binary(psr, operator, r2, Parser_evaluate(psr, r2.stack))

\* FunctionInvocation.__call__: argcount arguments off the stack, reversed
argument_evaluated(psr, operator, n, args, r) ==
    IF IsErr(r.value) THEN r
    ELSE invoke(psr, operator, n - 1, <<r.value>> \o args, r.stack)

invoke(psr, operator, n, args, stk) ==
    IF n = 0 THEN Value(ApplyFunction(psr, operator.name, args), stk)
    ELSE argument_evaluated(psr, operator, n, args, Parser_evaluate(psr, stk))

\* Parser.evaluate: the operator or function on the top of the stack;
\* stack.pop() of an empty list raises IndexError
Parser_evaluate(psr, stk) ==
    IF Len(stk) = 0 THEN Value(Err("IndexError"), stk)
    ELSE LET operator == Top(stk)
             rest == Pop(stk)
         IN  CASE operator.k = "UnaryOperator" ->
                    IF Len(rest) < 1 THEN Value(Err("MissingOperandException"), rest)
                    ELSE called_unary(operator, Parser_evaluate(psr, rest))
               [] operator.k = "BinaryOperator" ->
                    IF Len(rest) < 2 THEN Value(Err("MissingOperandException"), rest)
                    ELSE second_evaluated(psr, operator, Parser_evaluate(psr, rest))
               [] operator.k = "FunctionInvocation" ->
                    invoke(psr, operator, operator.argcount, <<>>, rest)
               [] OTHER -> Value(operator, rest)

\* the end of parse: evaluate the output list, which must be used up
evaluated(r) ==
    IF ~IsErr(r.value) /\ Len(r.stack) > 0 THEN Err("ExtraInputException")
    ELSE r.value

parse_end(psr, drained) ==
    IF ~drained.ok THEN Err(drained.msg)
    ELSE evaluated(Parser_evaluate(psr, drained.output))

MaxTokens == 5

\* the operands, operators and functions of the token streams explored
OperandTokens == {IntLit(1), IntLit(2), IntLit(3), BoolLit(TRUE), BoolLit(FALSE)}

OperatorNames == {"+", "-", "*", "==", "||", "&&", "and", "not"}

TokenAlphabet ==
    OperandTokens
    \cup {OperatorToken(n) : n \in OperatorNames}
    \cup {FunctionToken("string_of_int"), OpenParenToken, CloseParenToken,
          ArgumentSeparatorToken}

ParseInit ==
    /\ tokens = <<>>
    /\ output = <<>>
    /\ opstack = <<>>
    /\ last_token = None
    /\ parsed = None

Tokenized(token, step) ==
    /\ tokens' = Append(tokens, token)
    /\ last_token' = Some(token)
    /\ IF step.ok
       THEN output' = step.output /\ opstack' = step.stack /\ parsed' = None
       ELSE parsed' = Some(Err(step.msg)) /\ UNCHANGED <<output, opstack>>
    /\ UNCHANGED <<exprVars, cycleVars, mainVars, rules, backendVars, validateVars, caselessVars>>

\* one iteration of the for loop of parse
ParseToken ==
    /\ parsed = None
    /\ Len(tokens) < MaxTokens
    /\ \E token \in TokenAlphabet :
         Tokenized(token, parse_token(ParseParser, token, last_token, output, opstack))

\* the tokenizer is exhausted: parse drains the stack and evaluates
ParseEnd ==
    /\ parsed = None
    /\ parsed' = Some(parse_end(ParseParser, drain(output, opstack)))
    /\ UNCHANGED <<tokens, output, opstack, last_token, exprVars, cycleVars, mainVars,
                   rules, backendVars, validateVars, caselessVars>>

ParseNext == ParseToken \/ ParseEnd

----------------------------------------------------------------------------
(* The cycle check of main: find_cycle over the rule IR                    *)
(*                                                                         *)
(* Identifiers are CaselessStrings; the model holds each by its folded     *)
(* form.  The rule IR maps a rule name to a record: an Assert rule has     *)
(* produced_fact, produced_fields and distinct, a Suppress rule has        *)
(* suppressed_fact and suppressed_when (the description and metadata       *)
(* strings are left out).  A match is [fact, when, assignments], a         *)
(* negative match [fact, when]; when is None or <<value>>.                 *)

RuleNames == {"ra", "rb", "rc"}
FactNames == {"ff", "fg", "fh"}

Match(fact, when, assignments) == [fact |-> fact, when |-> when, assignments |-> assignments]
InvertedMatch(fact, when) == [fact |-> fact, when |-> when]

AssertRule(local_vars, matches, inverted_matches, distinct, final_predicate, produced_fact, produced_fields) ==
    [locals |-> local_vars, matches |-> matches, inverted_matches |-> inverted_matches,
     distinct |-> distinct, final_predicate |-> final_predicate,
     produced_fact |-> produced_fact, produced_fields |-> produced_fields]

SuppressRule(local_vars, matches, inverted_matches, final_predicate, suppressed_fact, suppressed_when) ==
    [locals |-> local_vars, matches |-> matches, inverted_matches |-> inverted_matches,
     final_predicate |-> final_predicate,
     suppressed_fact |-> suppressed_fact, suppressed_when |-> suppressed_when]

\* the facts a rule's positive and negative matches name
MatchedFacts(rule_clause) ==
    {rule_clause.matches[i].fact : i \in 1..Len(rule_clause.matches)}
    \cup {rule_clause.inverted_matches[i].fact : i \in 1..Len(rule_clause.inverted_matches)}

\* find_reachable looking at the positive matches only
find_reachable_positive_only(ir, rule) ==
    LET produced == IF "produced_fact" \in DOMAIN ir[rule] THEN ir[rule].produced_fact
                    ELSE ir[rule].suppressed_fact
    IN  {other_rule \in DOMAIN ir :
            \E i \in 1..Len(ir[other_rule].matches) : ir[other_rule].matches[i].fact = produced}

\* find_reachable: the rules that match what this rule produces or suppresses
find_reachable(ir, rule) ==
    LET produced == IF "produced_fact" \in DOMAIN ir[rule] THEN ir[rule].produced_fact
                    ELSE ir[rule].suppressed_fact
    IN  {other_rule \in DOMAIN ir : produced \in MatchedFacts(ir[other_rule])}

\* stack.index(node)
IndexOf(seq, x) == CHOOSE i \in 1..Len(seq) : seq[i] = x /\ \A j \in 1..(i - 1) : seq[j] # x

InSeq(seq, x) == \E i \in 1..Len(seq) : seq[i] = x

\* find_cycle returning the whole stack
whole_stack(stk, node) == stk

\* what find_cycle returns on meeting a node that is on the stack
cycle_from(stk, node) == SubSeq(stk, IndexOf(stk, node), Len(stk))

Running == [returned |-> FALSE, is_none |-> FALSE, value |-> <<>>]
ReturnedNone == [returned |-> TRUE, is_none |-> TRUE, value |-> <<>>]
Returned(list) == [returned |-> TRUE, is_none |-> FALSE, value |-> list]

\* find_cycle, outer loop: take any node of todo and start a stack with it
FindCycleOuter ==
    /\ pc = "find_cycle"
    /\ stack = <<>>
    /\ todo # {}
    /\ \E node \in todo :
         /\ todo' = todo \ {node}
         /\ stack' = <<node>>
    /\ UNCHANGED <<cycle, rules, exprVars, sideVars, mainVars>>

\* find_cycle, inner loop: one pass of the for loop over edges(top).  The
\* set is iterated in an order the program does not control, so the first
\* successor that is on the stack or in todo can be any such successor.
FindCycleInner ==
    /\ pc = "find_cycle"
    /\ stack # <<>>
    /\ LET top == stack[Len(stack)]
           hits == {node \in find_reachable(rules, top) : InSeq(stack, node) \/ node \in todo}
       IN  IF hits = {}
           THEN /\ stack' = SubSeq(stack, 1, Len(stack) - 1)
                /\ UNCHANGED <<todo, cycle, pc>>
           ELSE \E node \in hits :
                  IF InSeq(stack, node)
                  THEN /\ cycle' = Returned(cycle_from(stack, node))
                       /\ pc' = "cycle_done"
                       /\ UNCHANGED <<todo, stack>>
                  ELSE /\ stack' = Append(stack, node)
                       /\ todo' = todo \ {node}
                       /\ UNCHANGED <<cycle, pc>>
    /\ UNCHANGED <<rules, exprVars, sideVars, errors, arguments, constants, functions,
                   parameters, facts, distincts, todoDoc, log, domains, indexes,
                   schema_file, exit_status, invocation, limits>>

\* find_cycle: todo is exhausted
FindCycleNone ==
    /\ pc = "find_cycle"
    /\ stack = <<>>
    /\ todo = {}
    /\ cycle' = ReturnedNone
    /\ pc' = "cycle_done"
    /\ UNCHANGED <<todo, stack, rules, exprVars, sideVars, errors, arguments, constants,
                   functions, parameters, facts, distincts, todoDoc, log, domains,
                   indexes, schema_file, exit_status, invocation, limits>>

\* the subsets of the facts as match lists: ff and fg matched positively,
\* fh negatively
MatchesOf(matched) ==
    (IF "ff" \in matched THEN <<Match("ff", None, EmptyMap)>> ELSE <<>>)
    \o (IF "fg" \in matched THEN <<Match("fg", None, EmptyMap)>> ELSE <<>>)

InvertedMatchesOf(matched) ==
    IF "fh" \in matched THEN <<InvertedMatch("fh", None)>> ELSE <<>>

\* rule IRs for every choice, per rule, of the fact it produces (ra, rb) or
\* suppresses (rc) and of the facts it matches
CycleIRs ==
    {[r \in RuleNames |->
        IF r = "rc"
        THEN SuppressRule(EmptyMap, MatchesOf(m[r]), InvertedMatchesOf(m[r]),
                          BoolLit(TRUE), p[r], BoolLit(TRUE))
        ELSE AssertRule(EmptyMap, MatchesOf(m[r]), InvertedMatchesOf(m[r]), FALSE,
                        BoolLit(TRUE), p[r], EmptyMap)] :
     p \in [RuleNames -> FactNames], m \in [RuleNames -> SUBSET FactNames]}

----------------------------------------------------------------------------
(* evaluate() of main: tokenize and parse one expression                   *)
(*                                                                         *)
(* An expression's text is held as its syntax tree (the token stream the   *)
(* tokenizer yields, grouped as the parser's precedences group it):        *)
(* literals, Constants.X, This.X and Locals.X references, operator         *)
(* applications and calls.  "bad" stands for a text the tokenizer or the   *)
(* parser rejects (an unknown token, mismatched parentheses).              *)

SrcLit(value) == [e |-> "lit", value |-> value]
SrcConst(name) == [e |-> "const", name |-> name]
SrcThis(name) == [e |-> "this", name |-> name]
SrcLocal(name) == [e |-> "local", name |-> name]
SrcBin(op, l, r) == [e |-> "bin", op |-> op, l |-> l, r |-> r]
SrcUn(op, a) == [e |-> "un", op |-> op, a |-> a]
SrcCall(fn, args) == [e |-> "call", fn |-> fn, args |-> args]
SrcBad == [e |-> "bad"]

\* a value of the document: a plain YAML scalar or an !expr
Plain(value) == [delayed |-> FALSE, value |-> value]
Delayed(src) == [delayed |-> TRUE, expression |-> src]

MapPut(m, key, v) == [x \in (DOMAIN m) \cup {key} |-> IF x = key THEN v ELSE m[x]]
MapDel(m, key) == [x \in (DOMAIN m) \ {key} |-> m[x]]

\* Tokenizer.__init__: missing scopes become empty maps
TokenizerInit(consts, variables, this) ==
    [constants |-> consts, variables |-> variables,
     this |-> IF this # None THEN this[1] ELSE EmptyMap]

RECURSIVE ParseSrc(_, _, _)
\* Parser.parse over Tokenizer.tokenize: references are resolved by the
\* tokenizer, operators and functions are applied by Parser.evaluate
ParseSrc(src, tokenizer, psr) ==
    CASE src.e = "lit" -> src.value
      [] src.e = "const" ->
           IF src.name \notin DOMAIN tokenizer.constants THEN Err("Unknown constant")
           ELSE tokenizer.constants[src.name]
      [] src.e = "this" ->
           IF src.name \notin DOMAIN tokenizer.this THEN Err("Unknown field")
           ELSE ThisReferenceNode(src.name, tokenizer.this[src.name])
      [] src.e = "local" ->
           IF src.name \notin DOMAIN tokenizer.variables THEN Err("Unknown variable")
           ELSE LocalReferenceNode(src.name, tokenizer.variables[src.name])
      [] src.e = "bin" ->
           LET arg1 == ParseSrc(src.l, tokenizer, psr)
               arg2 == ParseSrc(src.r, tokenizer, psr)
           IN  IF IsErr(arg1) THEN arg1
               ELSE IF IsErr(arg2) THEN arg2
               ELSE ApplyBinary(psr, src.op, arg1, arg2)
      [] src.e = "un" ->
           LET arg1 == ParseSrc(src.a, tokenizer, psr)
           IN  IF IsErr(arg1) THEN arg1 ELSE ApplyUnary(src.op, arg1)
      [] src.e = "call" ->
           LET args == [i \in 1..Len(src.args) |-> ParseSrc(src.args[i], tokenizer, psr)]
           IN  IF \E i \in 1..Len(args) : IsErr(args[i])
               THEN args[CHOOSE i \in 1..Len(args) : IsErr(args[i])]
               ELSE ApplyFunction(psr, src.fn, args)
      [] OTHER -> Err("Mismatched parentheses")

\* evaluate(value, variables, this): a plain value is returned as it is
evaluate(value, consts, funcs, allow_regexp, variables, this) ==
    IF value.delayed
    THEN ParseSrc(value.expression, TokenizerInit(consts, variables, this),
                  ParserInit(consts, variables, this, allow_regexp, funcs))
    ELSE value.value

----------------------------------------------------------------------------
(* main: the analysis of one rule (the body of the try of "Load Rules")    *)
(*                                                                         *)
(* The document is held as the validator returns it, keys folded to lower  *)
(* case where they are names.  A match clause is a record with Fact and    *)
(* optionally When and Assign (a sequence of [name, value], in document    *)
(* order); Asserted (the Assert key) is [Fact, Fields, Distinct]; Suppress *)
(* is [Fact] with an optional When.  A fact of the fact map is [fields,    *)
(* is_output].                                                             *)

Raise(msg) == [ok |-> FALSE, msg |-> msg]

\* the scopes evaluate() closes over
Scope(consts, funcs, allow_regexp) ==
    [constants |-> consts, functions |-> funcs, allow_regexp |-> allow_regexp]

Eval(scope, value, variables, this) ==
    evaluate(value, scope.constants, scope.functions, scope.allow_regexp, variables, this)

\* the test of a match's when that accepts any BinaryOpNode
joinable_any_binary(when) ==
    IsInstance(when, "JoinNode") \/ IsInstance(when, "BinaryOpNode")

\* the test a match's when must pass when it is present
joinable(when) ==
    \/ IsInstance(when, "JoinNode")
    \/ (IsInstance(when, "BinaryOpNode") /\ IsInstance(when.arg1, "ThisReferenceNode"))

RECURSIVE assign_locals(_, _, _, _, _)
RECURSIVE assign_local(_, _, _, _, _, _)
\* the loop over a match's Assign: the duplicate test and the evaluation
assign_locals(scope, assign, this, local_vars, assignments) ==
    IF assign = <<>>
    THEN [ok |-> TRUE, locals |-> local_vars, assignments |-> assignments]
    ELSE IF Head(assign).name \in DOMAIN local_vars THEN Raise("Duplicate assignment")
    ELSE assign_local(scope, assign, this, local_vars, assignments,
                      Eval(scope, Head(assign).value, local_vars, Some(this)))

\* the rest of the loop body, value being what evaluate() gave
assign_local(scope, assign, this, local_vars, assignments, value) ==
    IF IsErr(value) THEN Raise(value.msg)
    ELSE assign_locals(scope, Tail(assign), this,
                       MapPut(local_vars, Head(assign).name, TypeOf(value)),
                       MapPut(assignments, Head(assign).name, value))

\* the test of an evaluated when; a when that is kept is <<when>>
test_when(when) ==
    IF IsErr(when) THEN Raise(when.msg)
    ELSE IF ~joinable(when) THEN Raise("Predicate of match is not a joinable predicate")
    ELSE [ok |-> TRUE, when |-> Some(when)]

\* match["when"]: None when the clause has no When
check_when(scope, match_clause, local_vars, this) ==
    IF "When" \notin DOMAIN match_clause THEN [ok |-> TRUE, when |-> None]
    ELSE test_when(Eval(scope, match_clause.When, local_vars, Some(this)))

\* the match record, once its when (w) and its assignments are read
finish_match(fact, inverted, w, assigned) ==
    IF ~w.ok THEN w
    ELSE IF ~assigned.ok THEN assigned
    ELSE [ok |-> TRUE, locals |-> assigned.locals,
          match |-> IF inverted THEN InvertedMatch(fact, w.when)
                    ELSE Match(fact, w.when, assigned.assignments)]

\* a loop body that reads the match's Assign before its When
check_match_assign_first(scope, fcts, match_clause, local_vars, inverted) ==
    IF match_clause.Fact \notin DOMAIN fcts THEN Raise("Unknown fact")
    ELSE LET assigned ==
                 IF ~inverted /\ "Assign" \in DOMAIN match_clause
                 THEN assign_locals(scope, match_clause.Assign,
                                    fcts[match_clause.Fact].fields, local_vars, EmptyMap)
                 ELSE [ok |-> TRUE, locals |-> local_vars, assignments |-> EmptyMap]
         IN  finish_match(match_clause.Fact, inverted,
                          check_when(scope, match_clause,
                                     IF assigned.ok THEN assigned.locals ELSE local_vars,
                                     fcts[match_clause.Fact].fields),
                          assigned)

\* the body of the MatchAll loop, and of the MatchNone loop when inverted
check_match(scope, fcts, match_clause, local_vars, inverted) ==
    IF match_clause.Fact \notin DOMAIN fcts THEN Raise("Unknown fact")
    ELSE finish_match(match_clause.Fact, inverted,
                      check_when(scope, match_clause, local_vars,
                                 fcts[match_clause.Fact].fields),
                      IF ~inverted /\ "Assign" \in DOMAIN match_clause
                      THEN assign_locals(scope, match_clause.Assign,
                                         fcts[match_clause.Fact].fields, local_vars, EmptyMap)
                      ELSE [ok |-> TRUE, locals |-> local_vars, assignments |-> EmptyMap])

RECURSIVE check_matches(_, _, _, _, _, _)
RECURSIVE next_match(_, _, _, _, _, _)
\* the MatchAll loop (or the MatchNone loop): stops at the first raise
check_matches(scope, fcts, clauses, local_vars, matches, inverted) ==
    IF clauses = <<>>
    THEN [ok |-> TRUE, locals |-> local_vars, matches |-> matches]
    ELSE next_match(scope, fcts, clauses, matches, inverted,
                    check_match(scope, fcts, Head(clauses), local_vars, inverted))

\* matches.append(match) and the next pass, m being the pass just made
next_match(scope, fcts, clauses, matches, inverted, m) ==
    IF ~m.ok THEN m
    ELSE check_matches(scope, fcts, Tail(clauses), m.locals, Append(matches, m.match),
                       inverted)

RECURSIVE produce_fields(_, _, _, _, _)
RECURSIVE produce_field(_, _, _, _, _, _)
\* the loop over the fields of an Assert; produced maps a field to None
\* until it is assigned
produce_fields(scope, fields, fact_fields, local_vars, produced) ==
    IF fields = <<>> THEN [ok |-> TRUE, produced |-> produced]
    ELSE IF Head(fields).name \notin DOMAIN fact_fields
    THEN Raise("Unknown field in production clause")
    ELSE produce_field(scope, fields, fact_fields, local_vars, produced,
                       Eval(scope, Head(fields).value, local_vars, None))

\* a comparison that takes any type for any field
assigned_type_agrees_always(value, declared) == TRUE

\* assigned_type != facts[produced_fact][assignment], negated
assigned_type_agrees(value, declared) == TypeOf(value) = declared

\* the rest of the loop body, value being what evaluate() gave
produce_field(scope, fields, fact_fields, local_vars, produced, value) ==
    IF IsErr(value) THEN Raise(value.msg)
    ELSE IF ~assigned_type_agrees(value, fact_fields[Head(fields).name])
    THEN Raise("Result of expression and field type do not agree")
    ELSE produce_fields(scope, Tail(fields), fact_fields, local_vars,
                        MapPut(produced, Head(fields).name, Some(value)))

\* the end of the Assert branch, p being the fields produced: the test for
\* unassigned fields, the distinct test, the rule record
finish_assert(assert, fact_fields, local_vars, matches, inverted_matches, final_predicate, p) ==
    IF ~p.ok THEN p
    ELSE IF \E f \in DOMAIN p.produced : p.produced[f] = None
    THEN Raise("Field unassigned in production")
    ELSE IF assert.Distinct /\ Cardinality(DOMAIN fact_fields) <= 0
    THEN Raise("Only facts with fields may be distinctly produced")
    ELSE [ok |-> TRUE, skipped |-> FALSE,
          distinct |-> IF assert.Distinct THEN {assert.Fact} ELSE {},
          rule |-> AssertRule(local_vars, matches, inverted_matches, assert.Distinct,
                              final_predicate, assert.Fact,
                              [f \in DOMAIN p.produced |-> p.produced[f][1]])]

\* a test for parameter facts that lets every fact through
is_parameter_fact_never(fact, params) == FALSE

\* produced_fact in parameters, suppressed_fact in parameters
is_parameter_fact(fact, params) == fact \in DOMAIN params

\* the Assert branch: the rule record and the fact it adds to distincts
check_assert(scope, fcts, params, assert, local_vars, matches, inverted_matches, final_predicate) ==
    IF assert.Fact \notin DOMAIN fcts THEN Raise("Unknown fact")
    ELSE IF is_parameter_fact(assert.Fact, params)
    THEN Raise("Parameter facts cannot be produced")
    ELSE finish_assert(assert, fcts[assert.Fact].fields, local_vars, matches,
                       inverted_matches, final_predicate,
                       produce_fields(scope, assert.Fields, fcts[assert.Fact].fields,
                                      local_vars,
                                      [f \in DOMAIN fcts[assert.Fact].fields |-> None]))

\* the end of the Suppress branch, suppressed_when being what evaluate() gave
finish_suppress(suppressed_fact, local_vars, matches, inverted_matches, final_predicate, suppressed_when) ==
    IF IsErr(suppressed_when) THEN Raise(suppressed_when.msg)
    ELSE [ok |-> TRUE, skipped |-> FALSE, distinct |-> {},
          rule |-> SuppressRule(local_vars, matches, inverted_matches, final_predicate,
                                suppressed_fact, suppressed_when)]

\* the Suppress branch; the clause's When is indexed whether it is there or not
check_suppress(scope, fcts, params, rule_clause, local_vars, matches, inverted_matches, final_predicate) ==
    IF "Suppress" \notin DOMAIN rule_clause THEN Raise("KeyError: Suppress")
    ELSE IF rule_clause.Suppress.Fact \notin DOMAIN fcts THEN Raise("Unknown fact")
    ELSE IF is_parameter_fact(rule_clause.Suppress.Fact, params)
    THEN Raise("Parameter facts cannot be suppressed")
    ELSE IF "When" \notin DOMAIN rule_clause.Suppress THEN Raise("KeyError: When")
    ELSE finish_suppress(rule_clause.Suppress.Fact, local_vars, matches, inverted_matches,
                         final_predicate,
                         Eval(scope, rule_clause.Suppress.When, local_vars,
                              Some(fcts[rule_clause.Suppress.Fact].fields)))

\* the test of the final predicate, then the Assert or the Suppress branch
check_production(scope, fcts, params, rule_clause, local_vars, matches, inverted_matches, final_predicate) ==
    IF IsErr(final_predicate) THEN Raise(final_predicate.msg)
    ELSE IF TypeOf(final_predicate) # "bool"
    THEN Raise("Rule final predicates must be of boolean type.")
    ELSE IF "Asserted" \in DOMAIN rule_clause
    THEN check_assert(scope, fcts, params, rule_clause.Asserted, local_vars, matches,
                      inverted_matches, final_predicate)
    ELSE check_suppress(scope, fcts, params, rule_clause, local_vars, matches,
                        inverted_matches, final_predicate)

\* from the MatchNone loop (none is its outcome) to the end of the try
after_matches(scope, fcts, params, rule_clause, all, none) ==
    IF ~none.ok THEN none
    ELSE check_production(scope, fcts, params, rule_clause, all.locals, all.matches,
                          none.matches,
                          IF "When" \in DOMAIN rule_clause
                          THEN Eval(scope, rule_clause.When, all.locals, None)
                          ELSE BoolLit(TRUE))

\* from the end of the MatchAll loop (all is its outcome) on
after_match_all(scope, fcts, params, rule_clause, all) ==
    IF ~all.ok THEN all
    ELSE after_matches(scope, fcts, params, rule_clause, all,
                       check_matches(scope, fcts,
                                     IF "MatchNone" \in DOMAIN rule_clause
                                     THEN rule_clause.MatchNone ELSE <<>>,
                                     all.locals, <<>>, TRUE))

\* the body of the try for one rule: skipped, a rule record, or a raise
analyse_rule(scope, fcts, params, rule_clause) ==
    IF "Enabled" \in DOMAIN rule_clause /\ ~rule_clause.Enabled
    THEN [ok |-> TRUE, skipped |-> TRUE]
    ELSE after_match_all(scope, fcts, params, rule_clause,
                         check_matches(scope, fcts, rule_clause.MatchAll, EmptyMap, <<>>,
                                       FALSE))

----------------------------------------------------------------------------
(* main: constants and parameters                                          *)

\* type(x) and isinstance(x, t) of a value as the document holds it
PyType(raw) == IF raw.delayed THEN "DelayedExpression" ELSE raw.value.type
PyIsInstance(raw, t) == PyType(raw) = t \/ (PyType(raw) = "bool" /\ t = "int")

\* a raise of the parameter's try; assigned tells whether parameters[name]
\* had been created when it was raised
RaiseAt(assigned, msg) == [ok |-> FALSE, assigned |-> assigned, msg |-> msg]

\* the body of the try for one parameter
check_parameter(scope, fcts, name, value) ==
    LET default == Eval(scope, value.Default, EmptyMap, None)
        lower == Eval(scope, value.Lower, EmptyMap, None)
        upper == Eval(scope, value.Upper, EmptyMap, None)
        dictionary == "Dictionary" \in DOMAIN value /\ value.Dictionary
        made(lo, up) ==
            [ok |-> TRUE,
             parameter |-> [default |-> default, lower |-> lo, upper |-> up,
                            dictionary |-> dictionary],
             fact |-> [fields |-> IF dictionary
                                  THEN [value |-> TypeOf(default), key |-> "str"]
                                  ELSE [value |-> TypeOf(default)],
                       is_output |-> FALSE]]
    IN  IF name \in DOMAIN fcts
        THEN RaiseAt(FALSE, "Collision between parameter and an identically-named fact")
        ELSE IF IsErr(default) THEN RaiseAt(TRUE, default.msg)
        ELSE IF ~IsLit(default) THEN RaiseAt(TRUE, "not a constant initializer")
        ELSE IF TypeOf(default) \in {"float", "int"}
        THEN IF "Lower" \notin DOMAIN value THEN RaiseAt(TRUE, "no lower limit specified")
             ELSE IF "Upper" \notin DOMAIN value THEN RaiseAt(TRUE, "no upper limit specified")
             ELSE IF \/ ~PyIsInstance(value.Upper, PyType(value.Lower))
                     \/ ~PyIsInstance(value.Upper, TypeOf(default))
             THEN RaiseAt(TRUE, "types of default and limits do not agree")
             ELSE IF LitLess(value.Upper.value, value.Lower.value)
             THEN RaiseAt(TRUE, "limits out of order")
             ELSE IF LitLess(default, lower) \/ LitLess(upper, default)
             THEN RaiseAt(TRUE, "default value is outside of specified limits")
             ELSE made(Some(lower), Some(upper))
        ELSE IF "Lower" \in DOMAIN value \/ "Upper" \in DOMAIN value
        THEN RaiseAt(TRUE, "cannot specify limits on non-numeric types")
        ELSE made(None, None)

----------------------------------------------------------------------------
(* main: the documents compiled                                            *)

MaxConstants == 1
MaxParameters == 1
MaxRules == 2
MaxInvocations == 2

\* the names of the constants, parameters and rules of a document, in
\* document order
ConstantOrder == <<"ca", "cb", "cc">>
ParameterOrder == <<"pa", "pb", "pc">>
RuleOrder == <<"ra", "rb", "rc", "rd">>

\* the Functions section, linked: one external function
LinkedFunctions == DeclaredFunctions

\* the fact map main starts with
InitialFacts ==
    [initialfact |-> [fields |-> [initializationtime |-> "int"], is_output |-> FALSE]]

\* the Facts section
DocumentFacts ==
    [ff |-> [fields |-> [x |-> "int", y |-> "str"], is_output |-> FALSE],
     fg |-> [fields |-> [x |-> "int"], is_output |-> FALSE],
     fh |-> [fields |-> [b |-> "bool"], is_output |-> TRUE]]

Two == SrcLit(IntLit(2))
Four == SrcLit(IntLit(4))
LetterA == SrcLit(StrLit(<<97>>))
TrueAndFalse == SrcBin("and", SrcLit(BoolLit(TRUE)), SrcLit(BoolLit(FALSE)))
TwoPlusReal == SrcBin("+", Two, SrcLit(FloatLit(2)))

\* values of the Constants section
ConstantValues ==
    {Plain(IntLit(2)),
     Delayed(SrcBin("/", Four, Two)),
     Delayed(TwoPlusReal),
     Delayed(TrueAndFalse)}

\* clauses of the Parameters section
ParameterClauses ==
    {[Default |-> Plain(StrLit(<<97>>))],
     [Default |-> Plain(IntLit(2)), Lower |-> Plain(IntLit(0)), Upper |-> Plain(IntLit(4)),
      Dictionary |-> TRUE],
     [Default |-> Plain(IntLit(2))],
     [Default |-> Plain(IntLit(2)), Lower |-> Plain(IntLit(4)), Upper |-> Plain(IntLit(0))],
     [Default |-> Delayed(TwoPlusReal)],
     [Default |-> Delayed(TrueAndFalse)],
     [Default |-> Plain(IntLit(1)), Lower |-> Plain(IntLit(0)), Upper |-> Plain(BoolLit(TRUE))],
     [Default |-> Plain(IntLit(2)), Lower |-> Plain(IntLit(0)), Upper |-> Plain(FloatLit(16))],
     [Default |-> Plain(IntLit(4)), Lower |-> Plain(IntLit(0)), Upper |-> Plain(IntLit(2))]}

\* predicates over the fields of ff and fg
XIsTwo == SrcBin("==", SrcThis("x"), Two)
TwoIsX == SrcBin("==", Two, SrcThis("x"))
YIsA == SrcBin("==", SrcThis("y"), LetterA)
NIsX == SrcBin("==", SrcLocal("n"), SrcThis("x"))
AssignN == <<[name |-> "n", value |-> Delayed(SrcThis("x"))]>>
ProduceFg(value) == [Fact |-> "fg", Fields |-> <<[name |-> "x", value |-> value]>>,
                     Distinct |-> FALSE]

\* a test of a field against an expression over a local of an earlier match
XIsNPlusTwo == SrcBin("==", SrcThis("x"), SrcBin("+", SrcLocal("n"), Two))

\* rules that pass analysis and whose later clauses test This.x against
\* Locals.n + 2, n being assigned by the first match
LaterTestRules ==
    {[MatchAll |-> <<[Fact |-> "ff", Assign |-> AssignN],
                     [Fact |-> "fg", When |-> Delayed(XIsNPlusTwo)]>>,
      Asserted |-> ProduceFg(Plain(IntLit(2)))],
     [MatchAll |-> <<[Fact |-> "ff", Assign |-> AssignN]>>,
      MatchNone |-> <<[Fact |-> "fg", When |-> Delayed(XIsNPlusTwo)]>>,
      Asserted |-> ProduceFg(Plain(IntLit(2)))],
     [MatchAll |-> <<[Fact |-> "ff", Assign |-> AssignN],
                     [Fact |-> "fg"],
                     [Fact |-> "fg", When |-> Delayed(XIsNPlusTwo)]>>,
      Asserted |-> ProduceFg(Plain(IntLit(2)))]}

\* rules whose match tests Locals.n where no earlier match has assigned it:
\* n is assigned by the same match, by a later match, by no match of the rule
UnboundLocalRules ==
    {[MatchAll |-> <<[Fact |-> "ff", When |-> Delayed(XIsNPlusTwo), Assign |-> AssignN]>>,
      Asserted |-> ProduceFg(Delayed(SrcLocal("n")))],
     [MatchAll |-> <<[Fact |-> "fg", When |-> Delayed(XIsNPlusTwo)],
                     [Fact |-> "ff", Assign |-> AssignN]>>,
      Asserted |-> ProduceFg(Delayed(SrcLocal("n")))],
     [MatchAll |-> <<[Fact |-> "fg", When |-> Delayed(XIsNPlusTwo)]>>,
      Asserted |-> ProduceFg(Plain(IntLit(2)))]}

\* a rule that passes analysis and whose match joins a test of a field with
\* the negation of a test
MixedJoinRules ==
    {[MatchAll |-> <<[Fact |-> "ff",
                      When |-> Delayed(SrcBin("and", XIsTwo, SrcUn("not", XIsTwo)))]>>,
      Asserted |-> ProduceFg(Plain(IntLit(2)))]}

\* rules that pass analysis (the last one when the constant ca is an int)
GoodRules ==
    {[MatchAll |-> <<[Fact |-> "ff", When |-> Delayed(XIsTwo), Assign |-> AssignN]>>,
      Asserted |-> ProduceFg(Delayed(SrcLocal("n")))],
     [MatchAll |-> <<[Fact |-> "fg", When |-> Delayed(TwoIsX)]>>,
      MatchNone |-> <<[Fact |-> "fh"]>>,
      Asserted |-> [Fact |-> "ff", Distinct |-> TRUE,
                  Fields |-> <<[name |-> "x", value |-> Plain(IntLit(2))],
                               [name |-> "y", value |-> Delayed(LetterA)]>>]],
     [MatchAll |-> <<[Fact |-> "ff", When |-> Delayed(SrcBin("and", XIsTwo, YIsA))]>>,
      Suppress |-> [Fact |-> "ff", When |-> Delayed(XIsTwo)]],
     [MatchAll |-> <<[Fact |-> "initialfact"]>>,
      MatchNone |-> <<[Fact |-> "fg", When |-> Delayed(SrcBin("+", SrcThis("x"), Two))]>>,
      Suppress |-> [Fact |-> "fh", When |-> Plain(BoolLit(TRUE))]],
     [Enabled |-> FALSE, MatchAll |-> <<[Fact |-> "zz"]>>,
      Asserted |-> ProduceFg(Plain(IntLit(2)))],
     [MatchAll |-> <<[Fact |-> "ff", Assign |-> AssignN]>>,
      When |-> Delayed(SrcBin("and", SrcBin("==", SrcLocal("n"), Two),
                                     SrcBin("==", SrcLocal("n"), Four))),
      Asserted |-> ProduceFg(Delayed(SrcLocal("n")))],
     [MatchAll |-> <<[Fact |-> "fg"]>>,
      Asserted |-> [Fact |-> "fh", Distinct |-> FALSE,
                  Fields |-> <<[name |-> "b", value |-> Delayed(TrueAndFalse)]>>]],
     [MatchAll |-> <<[Fact |-> "ff", When |-> Delayed(SrcBin("==", SrcThis("x"), SrcConst("ca")))]>>,
      Asserted |-> ProduceFg(Plain(IntLit(2)))]}

\* a rule with one match of ff under the given when
WhenRule(when) ==
    [MatchAll |-> <<[Fact |-> "ff", When |-> when]>>, Asserted |-> ProduceFg(Plain(IntLit(2)))]

\* rules that fail analysis: in a match's when, in an assignment, in the
\* final When, in the production
BadRules ==
    {WhenRule(Plain(BoolLit(TRUE))),
     WhenRule(Delayed(SrcUn("not", XIsTwo))),
     WhenRule(Delayed(SrcCall("ext", <<SrcThis("x"), SrcThis("y")>>))),
     WhenRule(Delayed(SrcBin("==", SrcBin("+", SrcThis("x"), Two), Four))),
     WhenRule(Delayed(SrcThis("zz"))),
     WhenRule(Delayed(SrcBad)),
     [MatchAll |-> <<[Fact |-> "ff", Assign |-> AssignN], [Fact |-> "fg", When |-> Delayed(NIsX)]>>,
      Asserted |-> ProduceFg(Delayed(SrcLocal("n")))],
     [MatchAll |-> <<[Fact |-> "ff", Assign |-> AssignN], [Fact |-> "fg", Assign |-> AssignN]>>,
      Asserted |-> ProduceFg(Delayed(SrcLocal("n")))],
     [MatchAll |-> <<[Fact |-> "zz"]>>, Asserted |-> ProduceFg(Plain(IntLit(2)))],
     [MatchAll |-> <<[Fact |-> "ff"]>>,
      MatchNone |-> <<[Fact |-> "fg", When |-> Delayed(SrcUn("not", XIsTwo))]>>,
      Asserted |-> ProduceFg(Plain(IntLit(2)))],
     [MatchAll |-> <<[Fact |-> "ff", Assign |-> AssignN]>>, When |-> Delayed(SrcLocal("n")),
      Asserted |-> ProduceFg(Delayed(SrcLocal("n")))],
     [MatchAll |-> <<[Fact |-> "ff"]>>, Asserted |-> ProduceFg(Plain(StrLit(<<97>>)))],
     [MatchAll |-> <<[Fact |-> "fg"]>>,
      Asserted |-> [Fact |-> "ff", Distinct |-> TRUE,
                  Fields |-> <<[name |-> "x", value |-> Plain(IntLit(2))]>>]],
     [MatchAll |-> <<[Fact |-> "fg"]>>,
      Asserted |-> [Fact |-> "ff", Distinct |-> TRUE,
                  Fields |-> <<[name |-> "w", value |-> Plain(IntLit(2))]>>]],
     [MatchAll |-> <<[Fact |-> "fg"]>>, Suppress |-> [Fact |-> "ff"]],
     [MatchAll |-> <<[Fact |-> "ff"]>>,
      Asserted |-> [Fact |-> "pa", Distinct |-> FALSE,
                  Fields |-> <<[name |-> "value", value |-> Plain(StrLit(<<97>>))]>>]],
     [MatchAll |-> <<[Fact |-> "ff"]>>,
      Suppress |-> [Fact |-> "pa", When |-> Plain(BoolLit(TRUE))]]}

RuleClauses ==
    GoodRules \cup LaterTestRules \cup MixedJoinRules \cup UnboundLocalRules \cup BadRules

\* the command lines: the defaults; -c -r as the test suite passes; a
\* prefix the -p type function rejects
CommandLines ==
    {[check_cycles |-> TRUE, allow_regexp |-> FALSE, prefix_ok |-> TRUE],
     [check_cycles |-> FALSE, allow_regexp |-> TRUE, prefix_ok |-> TRUE],
     [check_cycles |-> TRUE, allow_regexp |-> FALSE, prefix_ok |-> FALSE]}

----------------------------------------------------------------------------
(* sqlite_backend.generate, up to the rendering of the template: the       *)
(* marking of output facts and the synthetic assignments                   *)
(*                                                                         *)
(* generate works on the fact map and the rule IR that main passes: what   *)
(* it assigns to them, and to the nodes they hold, is assigned to main's.  *)

RECURSIVE find_locals(_)
RECURSIVE find_locals_args(_)
find_locals_args(args) ==
    IF Len(args) = 0 THEN <<>> ELSE find_locals(Head(args)) \o find_locals_args(Tail(args))

find_locals(value) ==
    CASE value.k = "LocalReferenceNode" -> <<value.variable>>
      [] value.k = "BinaryOpNode" -> find_locals(value.arg1) \o find_locals(value.arg2)
      [] value.k = "UnaryOpNode" -> find_locals(value.arg1)
      [] value.k = "IfNode" ->
           find_locals(value.predicate) \o find_locals(value.if_true)
             \o find_locals(value.if_false)
      [] value.k = "FunctionNode" -> find_locals_args(value.args)
      [] value.k = "CastNode" -> find_locals(value.expression)
      [] value.k = "JoinNode" -> find_locals(value.left) \o find_locals(value.right)
      [] OTHER -> <<>>

\* flatten_predicate: the tests of a when against constants only
RECURSIVE flatten_predicate(_)
flatten_predicate(when) ==
    IF when.k = "JoinNode"
    THEN flatten_predicate(when.left) \o flatten_predicate(when.right)
    ELSE IF /\ when.k = "BinaryOpNode"
            /\ when.type = "bool"
            /\ when.arg1.k = "ThisReferenceNode"
            /\ Len(find_locals(when.arg2)) = 0
    THEN <<when>>
    ELSE <<>>

\* is a node one of the clauses flatten_local_predicates returns
is_local_predicate(when) ==
    /\ when.k = "BinaryOpNode"
    /\ when.type = "bool"
    /\ when.arg1.k = "ThisReferenceNode"
    /\ Len(find_locals(when.arg2)) > 0

\* len(generate_predicate(fact, when)) == 0; when is None or <<node>>
no_predicate(when) == when = None \/ Len(flatten_predicate(when[1])) = 0

AllMatches(rule) == rule.matches \o rule.inverted_matches

\* the first loop of generate: facts[fact] = OutputFact(facts[fact]) for
\* every match whose predicate is empty
mark_output(fcts, ir) ==
    [f \in DOMAIN fcts |->
        IF \E r \in DOMAIN ir : \E i \in 1..Len(AllMatches(ir[r])) :
               AllMatches(ir[r])[i].fact = f /\ no_predicate(AllMatches(ir[r])[i].when)
        THEN [fcts[f] EXCEPT !.is_output = TRUE]
        ELSE fcts[f]]

RECURSIVE immediate_substitute(_, _, _)
\* one attribute of a node after immediate_substitute
substituted(x, used_var, actual) ==
    IF x.k = "LocalReferenceNode" /\ x.variable = used_var THEN actual
    ELSE immediate_substitute(x, used_var, actual)

\* immediate_substitute: the node as the assignments to its attributes leave it
immediate_substitute(predicate, used_var, actual) ==
    CASE predicate.k = "BinaryOpNode" ->
           [predicate EXCEPT !.arg1 = substituted(predicate.arg1, used_var, actual),
                             !.arg2 = substituted(predicate.arg2, used_var, actual)]
      [] predicate.k = "UnaryOpNode" ->
           [predicate EXCEPT !.arg1 = substituted(predicate.arg1, used_var, actual)]
      [] predicate.k = "IfNode" ->
           [predicate EXCEPT !.predicate = substituted(predicate.predicate, used_var, actual),
                             !.if_true = substituted(predicate.if_true, used_var, actual),
                             !.if_false = substituted(predicate.if_false, used_var, actual)]
      [] predicate.k = "FunctionNode" ->
           [predicate EXCEPT !.args = [i \in 1..Len(predicate.args) |->
                                          substituted(predicate.args[i], used_var, actual)]]
      [] predicate.k = "CastNode" ->
           [predicate EXCEPT !.expression = substituted(predicate.expression, used_var, actual)]
      [] OTHER -> predicate

\* the for loop of generate_synthetic_assignment over the used variables
\* that prev_clause assigns
RECURSIVE substitute_all(_, _, _)
substitute_all(predicate, used_vars, assignments) ==
    IF used_vars = {} THEN predicate
    ELSE LET used_var == CHOOSE v \in used_vars : TRUE
         IN  substitute_all(immediate_substitute(predicate, used_var, assignments[used_var]),
                            used_vars \ {used_var}, assignments)

Elements(seq) == {seq[i] : i \in 1..Len(seq)}

\* generate_synthetic_assignment: the rule after it; prev is the place of
\* prev_clause in rule["matches"]
generate_synthetic_assignment(predicate, rule, prev, synthetic_name) ==
    [rule EXCEPT
       !.locals = MapPut(rule.locals, synthetic_name, predicate.type),
       !.matches[prev].assignments =
           MapPut(rule.matches[prev].assignments, synthetic_name,
                  substitute_all(predicate,
                                 Elements(find_locals(predicate))
                                   \cap DOMAIN rule.matches[prev].assignments,
                                 rule.matches[prev].assignments))]

\* "synthetic_assignment_%d" % synthetic_assignment_count
SyntheticNames == <<"synthetic_assignment_1", "synthetic_assignment_2", "synthetic_assignment_3",
                    "synthetic_assignment_4">>

\* the place (from 1) of rule["matches"][j - 2], or 0 for an IndexError
prev_index(j, length) ==
    IF j - 2 < 0
    THEN (IF j - 2 + length >= 0 THEN j - 2 + length + 1 ELSE 0)
    ELSE (IF j - 2 < length THEN j - 2 + 1 ELSE 0)

\* the state of the loops: the rule as it is now, the count, what was raised
Lowering(rule, count, raised) == [rule |-> rule, count |-> count, raised |-> raised]

\* the body of the loop over clauses for one clause that needs a synthetic
\* assignment: the clause and the state after it
synthesised(clause, state, prev) ==
    IF prev = 0
    THEN [when |-> clause, state |-> Lowering(state.rule, state.count + 1, TRUE)]
    ELSE [when |-> [clause EXCEPT
                      !.arg2 = LocalReferenceNode(SyntheticNames[state.count + 1], clause.arg2.type)],
          state |-> Lowering(generate_synthetic_assignment(clause.arg2, state.rule, prev,
                                                           SyntheticNames[state.count + 1]),
                             state.count + 1, FALSE)]

\* the loop over flatten_local_predicates(when), as a walk of the when:
\* the when and the state after it
RECURSIVE lower_when(_, _, _, _)
lower_right(when, left, assignments, j) ==
    LET right == lower_when(when.right, assignments, j, left.state)
    IN  [when |-> [when EXCEPT !.left = left.when, !.right = right.when],
         state |-> right.state]

lower_when(when, assignments, j, state) ==
    IF state.raised THEN [when |-> when, state |-> state]
    ELSE IF when.k = "JoinNode"
    THEN lower_right(when, lower_when(when.left, assignments, j, state), assignments, j)
    ELSE IF /\ is_local_predicate(when)
            /\ Elements(find_locals(when)) \cap assignments # {}
            /\ when.arg2.k # "LocalReferenceNode"
    THEN synthesised(when, state, prev_index(j, Len(state.rule.matches)))
    ELSE [when |-> when, state |-> state]

\* the subsequent clause j (from 0) of match i (from 1)
Subsequent(rule, i, j) == AllMatches(rule)[i + 1 + j]

\* the rule after the when of its subsequent clause was walked
when_lowered(rule, i, j, lowered) ==
    IF i + 1 + j <= Len(rule.matches)
    THEN [lowered.state.rule EXCEPT !.matches[i + 1 + j].when = Some(lowered.when)]
    ELSE [lowered.state.rule EXCEPT
            !.inverted_matches[i + 1 + j - Len(rule.matches)].when = Some(lowered.when)]

\* the loops over i and j for one rule
RECURSIVE lower_rule(_, _, _, _)
lower_clause(i, j, assignments, state, lowered) ==
    lower_rule(i, j + 1, assignments,
               Lowering(when_lowered(state.rule, i, j, lowered),
                        lowered.state.count, lowered.state.raised))

lower_rule(i, j, assignments, state) ==
    IF state.raised \/ i > Len(state.rule.matches) THEN state
    ELSE IF i + 1 + j > Len(AllMatches(state.rule))
    THEN lower_rule(i + 1, 0,
                    IF i + 1 <= Len(state.rule.matches)
                    THEN DOMAIN state.rule.matches[i + 1].assignments ELSE {},
                    state)
    ELSE IF Subsequent(state.rule, i, j).when = None
    THEN lower_rule(i, j + 1, assignments, state)
    ELSE lower_clause(i, j, assignments, state,
                      lower_when(Subsequent(state.rule, i, j).when[1], assignments, j, state))

\* the loop over rules.items(), in the order the rules were added
RECURSIVE lower_rules(_, _, _, _)
rule_lowered(ir, names, state) ==
    lower_rules(MapPut(ir, Head(names), state.rule), Tail(names), state.count, state.raised)

lower_rules(ir, names, count, raised) ==
    IF raised \/ names = <<>> THEN [rules |-> ir, count |-> count, raised |-> raised]
    ELSE IF Len(ir[Head(names)].matches) = 0
    THEN lower_rules(ir, Tail(names), count, raised)
    ELSE rule_lowered(ir, names,
                      lower_rule(1, 0, DOMAIN ir[Head(names)].matches[1].assignments,
                                 Lowering(ir[Head(names)], count, FALSE)))

\* generate, from its entry to the rendering of the template: the fact
\* map, the rule IR, and whether an IndexError was raised
generate_lowering(fcts, ir) ==
    LET lowered == lower_rules(ir, SelectSeq(RuleOrder, LAMBDA r : r \in DOMAIN ir), 0, FALSE)
    IN  [facts |-> mark_output(fcts, ir), rules |-> lowered.rules, raised |-> lowered.raised]

----------------------------------------------------------------------------
(* main as a state machine: one action per item of the document            *)

\* one line of the history: what became of an item, and whether error()
\* was called for it
Entry(section, name, result, counted) ==
    [section |-> section, name |-> name, result |-> result, counted |-> counted]

Processed(section) == Cardinality({i \in DOMAIN log : log[i].section = section})

\* how many times this invocation called error()
ErrorsLogged == Cardinality({i \in DOMAIN log : log[i].counted})

\* the guard of the backend that tolerates one error
ErrorsEncounteredTwice(count) == count > 1

\* the guard in front of the backend
ErrorsEncountered(count) == count > 0

MainScope == Scope(constants, functions, arguments.allow_regexp)

\* the handler of the rule loop leaving the failed rule's outcome in rules
RulePassKeepingFailed(rule_name, r) ==
    IF r.ok /\ r.skipped
    THEN /\ log' = Append(log, Entry("rules", rule_name, "skipped", FALSE))
         /\ UNCHANGED <<rules, distincts, errors>>
    ELSE /\ rules' = MapPut(rules, rule_name, r)
         /\ log' = Append(log, Entry("rules", rule_name, IF r.ok THEN "ok" ELSE r.msg, ~r.ok))
         /\ errors' = IF r.ok THEN errors ELSE errors + 1
         /\ distincts' = IF r.ok THEN distincts \cup r.distinct ELSE distincts

\* main from its entry to the end of "Link SQL Functions": fresh locals
\* (those of find_cycle too), the command line, the document loaded and
\* validated
MainStart ==
    /\ pc \in {"idle", "exited", "crashed"}
    /\ invocation < limits.invocations
    /\ invocation' = invocation + 1
    /\ constants' = EmptyMap
    /\ distincts' = {}
    /\ parameters' = EmptyMap
    /\ rules' = EmptyMap
    /\ facts' = InitialFacts
    /\ schema_file' = None
    /\ todo' = {}
    /\ stack' = <<>>
    /\ cycle' = Running
    /\ \E cmd \in CommandLines, loaded \in BOOLEAN, nc \in 0..limits.constants,
          np \in 0..limits.parameters, nr \in 1..limits.rules :
         LET said == IF cmd.prefix_ok THEN <<>>
                     ELSE <<Entry("arguments", "prefix", "Invalid prefix:", TRUE)>>
         IN  /\ arguments' = cmd
             /\ errors' = errors + Len(said)
             /\ IF loaded
                THEN /\ functions' = LinkedFunctions
                     /\ todoDoc' = [constants |-> nc, parameters |-> np, rules |-> nr]
                     /\ log' = said
                     /\ exit_status' = None
                     /\ pc' = IF nc > 0 THEN "constants" ELSE "facts"
                ELSE /\ functions' = EmptyMap
                     /\ todoDoc' = [constants |-> 0, parameters |-> 0, rules |-> 0]
                     /\ log' = Append(said, Entry("load", "", "Could not load rule file", FALSE))
                     /\ exit_status' = Some(1)
                     /\ pc' = "exited"
    /\ UNCHANGED <<limits, domains, indexes, exprVars, sideVars>>

\* "Evaluate Constants": one pass of the loop.  The handler deletes
\* constants[name], which is there only if evaluate() returned.
EvaluateConstant ==
    /\ pc = "constants"
    /\ \E value \in ConstantValues :
         LET name == ConstantOrder[Processed("constants") + 1]
             result == Eval(MainScope, value, EmptyMap, None)
             assigned == IF IsErr(result) THEN constants ELSE MapPut(constants, name, result)
             msg == IF IsErr(result) THEN result.msg ELSE "not a constant initializer"
         IN  IF ~IsErr(result) /\ IsLit(result)
             THEN /\ constants' = assigned
                  /\ log' = Append(log, Entry("constants", name, "ok", FALSE))
                  /\ pc' = IF todoDoc.constants > 1 THEN "constants" ELSE "facts"
                  /\ UNCHANGED errors
             ELSE IF name \in DOMAIN assigned
             THEN /\ constants' = MapDel(assigned, name)
                  /\ errors' = errors + 1
                  /\ log' = Append(log, Entry("constants", name, msg, TRUE))
                  /\ pc' = IF todoDoc.constants > 1 THEN "constants" ELSE "facts"
             ELSE /\ constants' = assigned
                  /\ log' = Append(log, Entry("constants", name, "KeyError", FALSE))
                  /\ pc' = "crashed"
                  /\ UNCHANGED errors
    /\ todoDoc' = [todoDoc EXCEPT !.constants = @ - 1]
    /\ UNCHANGED <<arguments, functions, parameters, facts, distincts, rules, domains,
                   indexes, schema_file, exit_status, invocation, limits, exprVars, sideVars, cycleVars>>

\* "Load Facts"
LoadFacts ==
    /\ pc = "facts"
    /\ facts' = [f \in DOMAIN facts \cup DOMAIN DocumentFacts |->
                   IF f \in DOMAIN DocumentFacts THEN DocumentFacts[f]
                   ELSE IF f = "initialfact" THEN [facts[f] EXCEPT !.is_output = TRUE]
                   ELSE facts[f]]
    /\ pc' = IF todoDoc.parameters > 0 THEN "parameters" ELSE "rules"
    /\ UNCHANGED <<errors, arguments, constants, functions, parameters, distincts, rules,
                   todoDoc, log, domains, indexes, schema_file, exit_status, invocation,
                   limits, exprVars, sideVars, cycleVars>>

\* "Evaluate Parameters": one pass of the loop.  The handler deletes
\* parameters[name], which is there only past the collision test.
EvaluateParameter ==
    /\ pc = "parameters"
    /\ \E name \in {ParameterOrder[Processed("parameters") + 1], "ff"},
          value \in ParameterClauses :
         LET r == check_parameter(MainScope, facts, name, value)
             created == IF r.assigned THEN MapPut(parameters, name, EmptyMap) ELSE parameters
         IN  IF r.ok
             THEN /\ parameters' = MapPut(parameters, name, r.parameter)
                  /\ facts' = MapPut(facts, name, r.fact)
                  /\ log' = Append(log, Entry("parameters", name, "ok", FALSE))
                  /\ pc' = IF todoDoc.parameters > 1 THEN "parameters" ELSE "rules"
                  /\ UNCHANGED errors
             ELSE IF name \in DOMAIN created
             THEN /\ parameters' = MapDel(created, name)
                  /\ facts' = IF name \in DOMAIN facts THEN MapDel(facts, name) ELSE facts
                  /\ errors' = errors + 1
                  /\ log' = Append(log, Entry("parameters", name, r.msg, TRUE))
                  /\ pc' = IF todoDoc.parameters > 1 THEN "parameters" ELSE "rules"
             ELSE /\ log' = Append(log, Entry("parameters", name, "KeyError", FALSE))
                  /\ pc' = "crashed"
                  /\ UNCHANGED <<parameters, facts, errors>>
    /\ todoDoc' = [todoDoc EXCEPT !.parameters = @ - 1]
    /\ UNCHANGED <<arguments, constants, functions, distincts, rules, domains, indexes,
                   schema_file, exit_status, invocation, limits, exprVars, sideVars, cycleVars>>

\* what one pass of the rule loop does with the outcome r of its try
RulePass(rule_name, r) ==
    IF r.ok /\ r.skipped
    THEN /\ log' = Append(log, Entry("rules", rule_name, "skipped", FALSE))
         /\ UNCHANGED <<rules, distincts, errors>>
    ELSE IF r.ok
    THEN /\ rules' = MapPut(rules, rule_name, r.rule)
         /\ distincts' = distincts \cup r.distinct
         /\ log' = Append(log, Entry("rules", rule_name, "ok", FALSE))
         /\ UNCHANGED errors
    ELSE /\ errors' = errors + 1
         /\ log' = Append(log, Entry("rules", rule_name, r.msg, TRUE))
         /\ UNCHANGED <<rules, distincts>>

\* "Load Rules": one pass of the loop, the try and its handler
AnalyseRule ==
    /\ pc = "rules"
    /\ \E rule_clause \in RuleClauses :
         RulePass(RuleOrder[Processed("rules") + 1],
                  analyse_rule(MainScope, facts, parameters, rule_clause))
    /\ todoDoc' = [todoDoc EXCEPT !.rules = @ - 1]
    /\ pc' = IF todoDoc.rules > 1 THEN "rules" ELSE "post"
    /\ UNCHANGED <<arguments, constants, functions, parameters, facts, domains, indexes,
                   schema_file, exit_status, invocation, limits, exprVars, sideVars, cycleVars>>

\* a test made as each rule is read: it sees the distinct productions of the
\* rules before it only
suppressing_distinct_so_far(ir, distinct) ==
    LET Before(q, r) == \E i, j \in 1..Len(RuleOrder) :
                            i < j /\ RuleOrder[i] = q /\ RuleOrder[j] = r
        Suppresses(r) == /\ r \in DOMAIN ir
                         /\ "suppressed_fact" \in DOMAIN ir[r]
                         /\ \E q \in DOMAIN ir :
                               /\ Before(q, r)
                               /\ "produced_fact" \in DOMAIN ir[q]
                               /\ ir[q].distinct
                               /\ ir[q].produced_fact = ir[r].suppressed_fact
    IN  SelectSeq(RuleOrder, Suppresses)

\* the rules that suppress a distinctly produced fact, in rule order
suppressing_distinct(ir, distinct) ==
    LET Suppresses(r) == /\ r \in DOMAIN ir
                         /\ "suppressed_fact" \in DOMAIN ir[r]
                         /\ ir[r].suppressed_fact \in distinct
    IN  SelectSeq(RuleOrder, Suppresses)

\* a marking that forgets the facts rules produce
only_suppressed(ir) ==
    {ir[r].suppressed_fact : r \in {q \in DOMAIN ir : "suppressed_fact" \in DOMAIN ir[q]}}
    \ UNION {MatchedFacts(ir[r]) : r \in DOMAIN ir}

\* the facts some rule produces or suppresses and no rule matches
only_produced(ir) ==
    {IF "produced_fact" \in DOMAIN ir[r] THEN ir[r].produced_fact ELSE ir[r].suppressed_fact :
        r \in DOMAIN ir}
    \ UNION {MatchedFacts(ir[r]) : r \in DOMAIN ir}

\* a command line that never disables the cycle check
check_cycles_always(args) == TRUE

\* the guard of the cycle check: the default, unless -c was given
check_cycles(args) == args.check_cycles

\* from the end of the rule loop to the call of find_cycle: the test for an
\* empty rule set, the test for suppressed distinct facts, the marking of
\* the facts that are only produced, and the choice to look for cycles
PostChecks ==
    /\ pc = "post"
    /\ LET none == IF DOMAIN rules = {}
                   THEN <<Entry("post", "", "At least one rule must be defined and active.", TRUE)>>
                   ELSE <<>>
           suppressing == suppressing_distinct(rules, distincts)
           reported == [i \in 1..Len(suppressing) |->
                          Entry("post", suppressing[i], "attempts to suppress distinct facts", TRUE)]
       IN  /\ log' = log \o none \o reported
           /\ errors' = errors + Len(none) + Len(reported)
    /\ facts' = [f \in DOMAIN facts |->
                   IF f \in only_produced(rules) THEN [facts[f] EXCEPT !.is_output = TRUE]
                   ELSE facts[f]]
    /\ IF check_cycles(arguments)
       THEN /\ pc' = "find_cycle"
            /\ todo' = DOMAIN rules
            /\ stack' = <<>>
            /\ cycle' = Running
       ELSE /\ pc' = "emit"
            /\ UNCHANGED cycleVars
    /\ UNCHANGED <<arguments, constants, functions, parameters, distincts, rules, todoDoc,
                   domains, indexes, schema_file, exit_status, invocation, limits, exprVars, sideVars>>

\* the test of what find_cycle returned
ReportCycle ==
    /\ pc = "cycle_done"
    /\ IF cycle.is_none
       THEN UNCHANGED <<errors, log>>
       ELSE /\ errors' = errors + 1
            /\ log' = Append(log, Entry("cycle", "", "A cycle exists in the rule set", TRUE))
    /\ pc' = "emit"
    /\ UNCHANGED <<arguments, constants, functions, parameters, facts, distincts, rules,
                   todoDoc, domains, indexes, schema_file, exit_status, invocation, limits,
                   exprVars, sideVars, cycleVars>>

\* the end of main: exit 1 on errors, else call the backend, write what it
\* returns and exit 0, or exit 1 when it raises.  generate() starts by
\* emptying the backend's domains and indexes, then marks output facts and
\* makes the synthetic assignments in the fact map and the rule IR it was
\* passed, then renders the template.
Emit ==
    /\ pc = "emit"
    /\ IF ErrorsEncountered(errors)
       THEN /\ exit_status' = Some(1)
            /\ UNCHANGED <<schema_file, log, domains, indexes, facts, rules>>
       ELSE /\ domains' = EmptyMap
            /\ indexes' = EmptyMap
            /\ facts' = generate_lowering(facts, rules).facts
            /\ rules' = generate_lowering(facts, rules).rules
            /\ IF generate_lowering(facts, rules).raised
               THEN /\ log' = Append(log, Entry("generate", "", "IndexError", FALSE))
                    /\ schema_file' = None
                    /\ exit_status' = Some(1)
               ELSE \E rendered \in BOOLEAN :
                      /\ log' = Append(log, Entry("generate", "", IF rendered THEN "ok"
                                                                  ELSE "Compilation failed", FALSE))
                      /\ schema_file' = IF rendered THEN Some("schema") ELSE None
                      /\ exit_status' = Some(IF rendered THEN 0 ELSE 1)
    /\ pc' = "exited"
    /\ UNCHANGED <<errors, arguments, constants, functions, parameters, distincts,
                   todoDoc, invocation, limits, exprVars, sideVars, cycleVars>>

----------------------------------------------------------------------------
(* sqlite_backend: the index demands of generate_join and their emission   *)
(*                                                                         *)
(* The template that generate renders is not part of the sources: its      *)
(* calls of generate_join are any calls.  sqlite_backend.indexes is a      *)
(* dict of nested dicts; a dict is held as the sequence of its entries in  *)
(* insertion order.  Field and variable names are CaselessStrings: they    *)
(* keep their spelling and compare by their lower-case form.               *)

\* str.lower() on the spellings explored
str_lower(s) ==
    CASE s = "A" -> "a"
      [] s = "B" -> "b"
      [] s = "X" -> "x"
      [] s = "T" -> "t"
      [] s = "D" -> "d"
      [] s = "NEW" -> "new"
      [] s = "OLD" -> "old"
      [] s = "FACT" -> "fact"
      [] s = "Fact" -> "fact"
      [] s = "When" -> "when"
      [] OTHER -> s

\* the order of the lower-case names that sort compares
Alphabet == <<"a", "b", "x", "y">>

Rank(s) == CHOOSE i \in 1..Len(Alphabet) : Alphabet[i] = s

\* a dict whose keys are compared as they are spelled
KeyIndexBySpelling(dict, key) ==
    IF \E i \in 1..Len(dict) : dict[i].key = key
    THEN CHOOSE i \in 1..Len(dict) : dict[i].key = key
    ELSE 0

\* the position of key in a dict, 0 when it is not in
KeyIndex(dict, key) ==
    IF \E i \in 1..Len(dict) : str_lower(dict[i].key) = str_lower(key)
    THEN CHOOSE i \in 1..Len(dict) : str_lower(dict[i].key) = str_lower(key)
    ELSE 0

\* the for loop of add_index
RECURSIVE add_path(_, _)
descend(current, fields, i) ==
    IF i = 0
    THEN Append(current, [key |-> Head(fields), value |-> add_path(<<>>, Tail(fields))])
    ELSE [current EXCEPT ![i].value = add_path(@, Tail(fields))]

add_path(current, fields) ==
    IF Len(fields) = 0 THEN current
    ELSE descend(current, fields, KeyIndex(current, Head(fields)))

table_added(idx, table, fields, i) ==
    IF i = 0 THEN Append(idx, [key |-> table, value |-> add_path(<<>>, fields)])
    ELSE [idx EXCEPT ![i].value = add_path(@, fields)]

\* add_index on the index dict idx; a table of None has no lower()
add_index(idx, table, fields) ==
    IF table = None THEN [raised |-> TRUE, indexes |-> idx]
    ELSE IF Len(fields) = 0 THEN [raised |-> FALSE, indexes |-> idx]
    ELSE [raised |-> FALSE,
          indexes |-> table_added(idx, str_lower(table[1]), fields,
                                  KeyIndex(idx, str_lower(table[1])))]

\* a flatten that keeps the leftmost test of a join only
RECURSIVE flatten_leftmost(_, _)
flatten_leftmost(n, include_constants) ==
    IF n.k = "JoinNode"
    THEN flatten_leftmost(n.left, include_constants)
    ELSE IF /\ n.k = "BinaryOpNode"
            /\ n.type = "bool"
            /\ n.arg1.k = "ThisReferenceNode"
            /\ (~IsLit(n.arg2) \/ include_constants)
    THEN <<n>>
    ELSE <<>>

\* flatten of generate_join: the tests kept, in the order they are met
RECURSIVE flatten(_, _)
flatten(n, include_constants) ==
    IF n.k = "JoinNode"
    THEN flatten(n.left, include_constants) \o flatten(n.right, include_constants)
    ELSE IF /\ n.k = "BinaryOpNode"
            /\ n.type = "bool"
            /\ n.arg1.k = "ThisReferenceNode"
            /\ (~IsLit(n.arg2) \/ include_constants)
    THEN <<n>>
    ELSE <<>>

IsEquality(n) == n.operation = "="
IsInequality(n) == n.operation # "="

SortKey(n) == Rank(str_lower(n.arg1.variable))

\* list.sort is stable: a test goes after the tests whose key is not larger
RECURSIVE sorted(_)
inserted(list, n) ==
    LET before == SelectSeq(list, LAMBDA m : SortKey(m) <= SortKey(n))
        after == SelectSeq(list, LAMBDA m : SortKey(m) > SortKey(n))
    IN  before \o <<n>> \o after

sorted(list) ==
    IF Len(list) = 0 THEN <<>>
    ELSE inserted(sorted(SubSeq(list, 1, Len(list) - 1)), list[Len(list)])

RECURSIVE locals_of(_)
locals_of(predicates) ==
    IF Len(predicates) = 0 THEN <<>>
    ELSE find_locals(Head(predicates)) \o locals_of(Tail(predicates))

this_of(predicates) == [i \in 1..Len(predicates) |-> predicates[i].arg1.variable]

Demand(table, fields) == [table |-> table, fields |-> fields]

\* a demand that takes the field of every inequality
fact_demands_every_inequality(fact_prefix, equalities, inequalities) ==
    IF fact_prefix \in {Some("new"), Some("old")} THEN <<>>
    ELSE IF Len(inequalities) > 0
    THEN <<Demand(fact_prefix, this_of(equalities) \o this_of(inequalities))>>
    ELSE IF Len(equalities) > 0 THEN <<Demand(fact_prefix, this_of(equalities))>>
    ELSE <<>>

\* the add_index call of generate_join for the frame's table, if it makes one
frame_demands(frame_prefix, equalities, inequalities) ==
    IF frame_prefix \in {Some("new"), Some("old")} THEN <<>>
    ELSE IF Len(inequalities) > 0
    THEN <<Demand(frame_prefix, locals_of(equalities) \o find_locals(inequalities[1]))>>
    ELSE IF Len(locals_of(equalities)) > 0
    THEN <<Demand(frame_prefix, locals_of(equalities))>>
    ELSE <<>>

\* the add_index call of generate_join for the fact's table, if it makes one
fact_demands(fact_prefix, equalities, inequalities) ==
    IF fact_prefix \in {Some("new"), Some("old")} THEN <<>>
    ELSE IF Len(inequalities) > 0
    THEN <<Demand(fact_prefix, this_of(equalities) \o <<inequalities[1].arg1.variable>>)>>
    ELSE IF Len(equalities) > 0 THEN <<Demand(fact_prefix, this_of(equalities))>>
    ELSE <<>>

\* the add_index calls made one after the other, up to one that raises
RECURSIVE add_indexes(_, _, _)
index_added(idx, calls, made, added) ==
    IF added.raised THEN [raised |-> TRUE, indexes |-> idx, made |-> made]
    ELSE add_indexes(added.indexes, Tail(calls), Append(made, Head(calls)))

add_indexes(idx, calls, made) ==
    IF Len(calls) = 0 THEN [raised |-> FALSE, indexes |-> idx, made |-> made]
    ELSE index_added(idx, calls, made, add_index(idx, Head(calls).table, Head(calls).fields))

LowerPrefix(p) == IF p = None THEN None ELSE Some(str_lower(p[1]))

\* generate_join after the two sorts: the join is the equalities then the
\* inequalities, None when there is none; then the index demands
join_sorted(idx, frame_prefix, fact_prefix, equalities, inequalities) ==
    IF Len(equalities) + Len(inequalities) = 0
    THEN [raised |-> FALSE, result |-> None, indexes |-> idx, made |-> <<>>]
    ELSE [result |-> Some(equalities \o inequalities)]
         @@ add_indexes(idx,
                        frame_demands(frame_prefix, equalities, inequalities)
                          \o fact_demands(fact_prefix, equalities, inequalities),
                        <<>>)

join_flattened(idx, frame_prefix, fact_prefix, tests) ==
    join_sorted(idx, frame_prefix, fact_prefix,
                sorted(SelectSeq(tests, IsEquality)), sorted(SelectSeq(tests, IsInequality)))

generate_join(idx, when, frame_prefix, fact_prefix, include_constants) ==
    join_flattened(idx, LowerPrefix(frame_prefix), LowerPrefix(fact_prefix),
                   IF when = None THEN <<>> ELSE flatten(when[1], include_constants))

\* dft of generate: the paths to the leaves of a tree, in the dicts' order
RECURSIVE dft(_, _)
RECURSIVE dft_items(_, _, _)
dft_items(tree, path, i) ==
    IF i > Len(tree) THEN <<>>
    ELSE dft(tree[i].value, Append(path, tree[i].key)) \o dft_items(tree, path, i + 1)

dft(tree, path) == IF Len(tree) = 0 THEN <<path>> ELSE dft_items(tree, path, 1)

\* for table, tree in indexes.items(): dft(tree, callback)
RECURSIVE leaves_from(_, _)
leaves_from(idx, i) ==
    IF i > Len(idx) THEN <<>>
    ELSE LET paths == dft(idx[i].value, <<>>)
         IN  [j \in 1..Len(paths) |-> [table |-> idx[i].key, path |-> paths[j]]]
               \o leaves_from(idx, i + 1)

\* callback of generate: the CREATE INDEX lines, numbered from 1
create_indexes(idx) ==
    LET leaves == leaves_from(idx, 1)
    IN  [n \in 1..Len(leaves) |->
           [index_number |-> n, table |-> leaves[n].table, path |-> leaves[n].path]]

MaxCalls == 2

ThisA == ThisReferenceNode("a", "int")
ThisUpperA == ThisReferenceNode("A", "int")
ThisB == ThisReferenceNode("b", "int")
LocalX == LocalReferenceNode("x", "int")
LocalY == LocalReferenceNode("y", "int")

EqAX == PyBinary("==", ThisA, LocalX)
EqUpperAY == PyBinary("==", ThisUpperA, LocalY)
EqATwo == PyBinary("==", ThisA, IntLit(2))
EqBY == PyBinary("==", ThisB, LocalY)
GtBY == PyBinary(">", ThisB, LocalY)
LtATwo == PyBinary("<", ThisA, IntLit(2))
EqXA == PyBinary("==", LocalX, ThisA)

\* the whens generate_join is called with, as the parser builds them: none,
\* one test, and joins of tests in and out of the sorted order
JoinWhens ==
    {None, Some(EqAX), Some(EqATwo), Some(GtBY), Some(EqXA),
     Some(JoinNode(EqAX, GtBY)), Some(JoinNode(GtBY, EqAX)),
     Some(JoinNode(EqBY, EqUpperAY)), Some(JoinNode(GtBY, LtATwo)),
     Some(JoinNode(JoinNode(EqAX, GtBY), LtATwo))}

\* the frame's table is another table than the fact's
FramePrefixes == {None, Some("new"), Some("u")}
FactPrefixes == {None, Some("OLD"), Some("t"), Some("T")}

FieldNames == {"a", "A", "b"}

FieldLists ==
    {<<>>} \cup {<<f>> : f \in FieldNames} \cup {<<f, g>> : f, g \in FieldNames}

NoJoin ==
    [called |-> FALSE, when |-> None, frame_prefix |-> None, fact_prefix |-> None,
     include_constants |-> FALSE, raised |-> FALSE, result |-> None, made |-> <<>>]

\* generate after the reset of the globals, before the template is rendered
BackendInit ==
    /\ demands = <<>>
    /\ last_join = NoJoin
    /\ emitted = None
    /\ printed = <<>>

Rendering == emitted = None /\ ~last_join.raised

\* a call of add_index
AddIndex ==
    /\ Rendering
    /\ Len(demands) < MaxCalls
    /\ \E table \in {Some("t"), Some("T"), Some("u")}, fields \in FieldLists :
         /\ indexes' = add_index(indexes, table, fields).indexes
         /\ demands' = Append(demands, Demand(Some(str_lower(table[1])), fields))
    /\ UNCHANGED <<last_join, emitted, printed>>
    /\ UNCHANGED <<pc, errors, arguments, constants, functions, parameters, facts,
                   distincts, todoDoc, log, domains, schema_file, exit_status,
                   invocation, limits, rules, exprVars, cycleVars, parseVars,
                   validateVars, caselessVars>>

Joined(when, frame_prefix, fact_prefix, include_constants, join) ==
    /\ indexes' = join.indexes
    /\ demands' = demands \o join.made
    /\ last_join' = [called |-> TRUE, when |-> when, frame_prefix |-> frame_prefix,
                     fact_prefix |-> fact_prefix, include_constants |-> include_constants,
                     raised |-> join.raised, result |-> join.result, made |-> join.made]

\* the template calls generate_join
GenerateJoin ==
    /\ Rendering
    /\ Len(demands) < MaxCalls
    /\ \E when \in JoinWhens, frame_prefix \in FramePrefixes, fact_prefix \in FactPrefixes,
          include_constants \in BOOLEAN :
         Joined(when, frame_prefix, fact_prefix, include_constants,
                generate_join(indexes, when, frame_prefix, fact_prefix, include_constants))
    /\ UNCHANGED <<emitted, printed>>
    /\ UNCHANGED <<pc, errors, arguments, constants, functions, parameters, facts,
                   distincts, todoDoc, log, domains, schema_file, exit_status,
                   invocation, limits, rules, exprVars, cycleVars, parseVars,
                   validateVars, caselessVars>>

\* the template is rendered: generate appends the indexes to the result
EmitIndexes ==
    /\ Rendering
    /\ emitted' = Some(create_indexes(indexes))
    /\ UNCHANGED <<demands, last_join, printed, mainVars, rules, exprVars, cycleVars, parseVars,
                   validateVars, caselessVars>>

\* an only_once that takes the domain as it is spelled
only_once_as_spelled(doms, domain, value) ==
    IF domain \in DOMAIN doms /\ value \in doms[domain]
    THEN [domains |-> doms, returned |-> ""]
    ELSE [domains |-> MapPut(doms, domain,
                             (IF domain \in DOMAIN doms THEN doms[domain] ELSE {}) \cup {value}),
          returned |-> value]

\* only_once: sqlite_backend.domains after the call and what it returned;
\* domains[domain] is held as the set of its keys
only_once(doms, domain, value) ==
    IF str_lower(domain) \in DOMAIN doms /\ value \in doms[str_lower(domain)]
    THEN [domains |-> doms, returned |-> ""]
    ELSE [domains |-> MapPut(doms, str_lower(domain),
                             (IF str_lower(domain) \in DOMAIN doms
                              THEN doms[str_lower(domain)] ELSE {}) \cup {value}),
          returned |-> value]

MaxPrinted == 3

\* a call of only_once from the template
OnlyOnce ==
    /\ Rendering
    /\ Len(printed) < MaxPrinted
    /\ \E domain \in {"d", "D", "t"}, value \in {"v", "w"} :
         /\ domains' = only_once(domains, domain, value).domains
         /\ printed' = Append(printed, [domain |-> domain, value |-> value,
                                        returned |-> only_once(domains, domain, value).returned])
    /\ UNCHANGED <<demands, last_join, emitted>>
    /\ UNCHANGED <<pc, errors, arguments, constants, functions, parameters, facts,
                   distincts, todoDoc, log, indexes, schema_file, exit_status,
                   invocation, limits, rules, exprVars, cycleVars, parseVars,
                   validateVars, caselessVars>>

OnceNext == OnlyOnce

BackendNext == AddIndex \/ GenerateJoin \/ EmitIndexes

----------------------------------------------------------------------------
(* validate.Dictionary: the validation of one mapping of a document        *)
(*                                                                         *)
(* A key is held with its type, its spelling and whether it is a           *)
(* CaselessString; a dict is the sequence of its [key, value] entries in   *)
(* insertion order.  A value validator is held by its name: "String" is    *)
(* String(), "AnyExpression" is giles.py's AnyExpression and "ValidName"   *)
(* its ValidName.                                                          *)

StrKey(s) == [type |-> "str", caseless |-> FALSE, string |-> s]
IntKey(s) == [type |-> "int", caseless |-> FALSE, string |-> s]
CS(key) == [type |-> "str", caseless |-> TRUE, string |-> key.string]

Dict(items) == [k |-> "dict", items |-> items]

\* == of two keys: CaselessString.__eq__ when either is one
key_eq(a, b) ==
    /\ a.type = b.type
    /\ IF a.caseless \/ b.caseless
       THEN str_lower(a.string) = str_lower(b.string)
       ELSE a.string = b.string

has_key(d, key) == \E i \in 1..Len(d) : key_eq(d[i].key, key)

get_item(d, key) == d[CHOOSE i \in 1..Len(d) : key_eq(d[i].key, key)].value

\* d[key] = x: an equal key keeps its place and its first spelling
set_item(d, key, x) ==
    IF has_key(d, key)
    THEN [i \in 1..Len(d) |->
             IF key_eq(d[i].key, key) THEN [key |-> d[i].key, value |-> x] ELSE d[i]]
    ELSE Append(d, [key |-> key, value |-> x])

\* a casefold that keeps every key as it is spelled
casefold_as_spelled(self, s) == s

casefold(self, s) ==
    IF s.type = "str" /\ ~self.case_sensitive THEN CS(s) ELSE s

RECURSIVE folded_items(_, _, _, _)
folded_items(self, items, i, d) ==
    IF i > Len(items) THEN d
    ELSE folded_items(self, items, i + 1,
                      set_item(d, casefold(self, items[i].key), items[i].value))

Dictionary(required, optional, extra, extra_keys, min_extra, max_extra, case_sensitive, allow_dups) ==
    LET self == [case_sensitive |-> case_sensitive] IN
    [case_sensitive |-> case_sensitive,
     required |-> folded_items(self, required, 1, <<>>),
     optional |-> folded_items(self, optional, 1, <<>>),
     extra |-> extra,
     min_extra |-> min_extra,
     max_extra |-> max_extra,
     extra_keys |-> extra_keys,
     allow_duplicates |-> allow_dups,
     key_type |-> "str"]

Valid(value) == [ok |-> TRUE, value |-> value]

\* the spellings ValidName's pattern matches
Names == {"fact", "Fact", "FACT", "when", "When", "zz"}

\* a value validator called with x
call_validator(name, x) ==
    CASE name = "String" ->
             IF x.type = "str" THEN Valid(x) ELSE Raised("Expected a string")
      [] name = "ValidName" ->
             IF x.type = "str" /\ x.string \in Names THEN Valid(CS(x))
             ELSE Raised("Invalid variable name")
      [] OTHER -> Valid(x)

stringify(self, key) == IF ~self.case_sensitive THEN CS(key) ELSE StrKey(key.string)

count(keys, key) == Cardinality({i \in 1..Len(keys) : key_eq(keys[i], key)})

missing_required(self, keys) ==
    \E i \in 1..Len(self.required) :
        \A j \in 1..Len(keys) : ~key_eq(keys[j], self.required[i].key)

\* after the loop: the bounds on the number of extra keys
extras_counted(self, result, extra_count) ==
    IF self.min_extra # None /\ extra_count < self.min_extra[1]
    THEN Raised("Expected more extra keys")
    ELSE IF self.max_extra # None /\ extra_count > self.max_extra[1]
    THEN Raised("Expected fewer extra keys")
    ELSE Valid(result)

\* what one round of the loop over keys stores in result (or raises)
key_validated(self, key, dummy, result) ==
    IF has_key(self.required, key)
    THEN LET v == call_validator(get_item(self.required, key), get_item(dummy, key)) IN
         IF v.ok THEN Valid(set_item(result, stringify(self, key), v.value)) ELSE v
    ELSE IF has_key(self.optional, key)
    THEN LET v == call_validator(get_item(self.optional, key), get_item(dummy, key)) IN
         IF v.ok THEN Valid(set_item(result, stringify(self, key), v.value)) ELSE v
    ELSE LET named == IF self.extra_keys # None
                      THEN call_validator(self.extra_keys[1], key)
                      ELSE Valid(key)
         IN  IF ~named.ok THEN named
             ELSE IF self.extra # None
             THEN LET v == call_validator(self.extra[1], get_item(dummy, key)) IN
                  IF v.ok THEN Valid(set_item(result, stringify(self, key), v.value)) ELSE v
             ELSE Valid(result)

is_extra(self, key) == ~has_key(self.required, key) /\ ~has_key(self.optional, key)

RECURSIVE validate_keys(_, _, _, _, _, _)
validate_keys(self, keys, dummy, i, result, extra_count) ==
    IF i > Len(keys) THEN extras_counted(self, result, extra_count)
    ELSE IF keys[i].type # self.key_type THEN Raised("Invalid key type")
    ELSE IF ~self.allow_duplicates /\ count(keys, keys[i]) > 1 THEN Raised("Duplicate keys")
    ELSE IF self.extra = None /\ is_extra(self, keys[i]) THEN Raised("Disallowed key")
    ELSE LET stored == key_validated(self, keys[i], dummy, result) IN
         IF ~stored.ok THEN stored
         ELSE validate_keys(self, keys, dummy, i + 1, stored.value,
                            IF is_extra(self, keys[i]) THEN extra_count + 1 ELSE extra_count)

\* Dictionary.__call__
Dictionary_call(self, o) ==
    IF o.k # "dict" THEN Raised("Expected a dictionary")
    ELSE LET keys == [i \in 1..Len(o.items) |-> casefold(self, o.items[i].key)]
             dummy == folded_items(self, o.items, 1, <<>>)
         IN  IF missing_required(self, keys) THEN Raised("Missing required key")
             ELSE validate_keys(self, keys, dummy, 1, <<>>, 0)

\* ---- the validators and the objects explored

MaxKeys == 3

Item(key, value) == [key |-> key, value |-> value]

\* ValidSuppress, with every value a string
SuppressLike(case_sensitive, allow_dups) ==
    Dictionary(<<Item(StrKey("Fact"), "String")>>, <<Item(StrKey("When"), "AnyExpression")>>,
               None, None, None, None, case_sensitive, allow_dups)

\* a mapping of names to expressions, as Assign in ValidMatch
AssignLike(extra, min_extra, max_extra) ==
    Dictionary(<<>>, <<>>, extra, Some("ValidName"), min_extra, max_extra, FALSE, FALSE)

\* a required key and any extra keys
OpenLike(allow_dups) ==
    Dictionary(<<Item(StrKey("Fact"), "String")>>, <<>>,
               Some("String"), None, None, None, FALSE, allow_dups)

Dictionaries ==
    {SuppressLike(FALSE, FALSE), SuppressLike(TRUE, FALSE), SuppressLike(FALSE, TRUE),
     AssignLike(Some("AnyExpression"), Some(1), None),
     AssignLike(Some("AnyExpression"), Some(1), Some(1)),
     AssignLike(None, None, None),
     OpenLike(FALSE), OpenLike(TRUE)}

DocumentKeys ==
    {StrKey("fact"), StrKey("FACT"), StrKey("When"), StrKey("zz"), StrKey("9x"), IntKey("1")}

DocumentValues == {StrLit(<<97>>), IntLit(2)}

DocumentItems == {Item(key, value) : key \in DocumentKeys, value \in DocumentValues}

\* the dicts of at most MaxKeys keys, no key twice
DocumentDicts ==
    UNION {{items \in [1..n -> DocumentItems] :
                \A i, j \in 1..n : i # j => items[i].key # items[j].key} : n \in 0..MaxKeys}

Objects == {Dict(items) : items \in DocumentDicts} \cup {StrLit(<<97>>)}

NoDictionary == Dictionary(<<>>, <<>>, None, None, None, None, TRUE, FALSE)

ValidateIdle ==
    /\ validator = NoDictionary
    /\ obj = Dict(<<>>)
    /\ checked = None

\* List.__init__
List(members, min_length, max_length) ==
    [members |-> members, min_length |-> min_length, max_length |-> max_length]

ListOf(items) == [k |-> "list", items |-> items]

\* the loop of List.__call__: the members validated so far, or what one raised
RECURSIVE members_validated(_, _, _, _)
members_validated(self, items, i, result) ==
    IF i > Len(items) THEN Valid(result)
    ELSE LET v == call_validator(self.members, items[i]) IN
         IF ~v.ok THEN v
         ELSE members_validated(self, items, i + 1, Append(result, v.value))

\* List.__call__
List_call(self, o) ==
    IF o.k # "list" THEN Raised("Expected a list")
    ELSE IF self.min_length # None /\ Len(o.items) < self.min_length[1]
    THEN Raised("Expected a list of at least length")
    ELSE IF self.max_length # None /\ Len(o.items) < self.max_length[1]
    THEN Raised("Expected a list of at most length")
    ELSE members_validated(self, o.items, 1, <<>>)

MaxLength == 4

Lengths == {None} \cup {Some(n) : n \in 0..(MaxLength - 1)}

ListValidators ==
    {List(members, min_length, max_length) :
        members \in {"String", "AnyExpression"}, min_length \in Lengths, max_length \in Lengths}

ListObjects ==
    {ListOf(items) : items \in UNION {[1..n -> DocumentValues] : n \in 0..MaxLength}}
      \cup {Dict(<<>>)}

IsList(self) == "members" \in DOMAIN self

ValidateInit ==
    /\ \/ validator \in Dictionaries /\ obj \in Objects
       \/ validator \in ListValidators /\ obj \in ListObjects
    /\ checked = None

\* validator(obj): the object given and what the call returned or raised
DictionaryCall ==
    /\ checked = None
    /\ ~IsList(validator)
    /\ checked' = Some([given |-> obj, outcome |-> Dictionary_call(validator, obj)])
    /\ UNCHANGED <<validator, obj>>
    /\ UNCHANGED <<mainVars, rules, exprVars, cycleVars, parseVars, backendVars, caselessVars>>

ListCall ==
    /\ checked = None
    /\ IsList(validator)
    /\ checked' = Some([given |-> obj, outcome |-> List_call(validator, obj)])
    /\ UNCHANGED <<validator, obj>>
    /\ UNCHANGED <<mainVars, rules, exprVars, cycleVars, parseVars, backendVars, caselessVars>>

ValidateNext == DictionaryCall \/ ListCall

----------------------------------------------------------------------------
(* caseless_string.CaselessString: construction and comparison             *)
(*                                                                         *)
(* A str is held with the sequence of its character codes, a               *)
(* CaselessString with those of its _string and _folded attributes.        *)

\* a plain str
PyStr(chars) == [caseless |-> FALSE, string |-> chars]

\* str.casefold on the characters explored: A-Z to a-z
str_casefold(s) == [i \in 1..Len(s) |-> IF s[i] \in 65..90 THEN s[i] + 32 ELSE s[i]]

\* str.__lt__: the order of the code points
str_lt(s, t) ==
    \E i \in 1..(Len(t)) :
        /\ \A j \in 1..(i - 1) : j <= Len(s) /\ s[j] = t[j]
        /\ \/ i = Len(s) + 1
           \/ i <= Len(s) /\ s[i] < t[i]

\* CaselessString.__init__
CaselessString(string) ==
    IF string.caseless
    THEN [caseless |-> TRUE, string |-> string.string, folded |-> string.folded]
    ELSE [caseless |-> TRUE, string |-> string.string, folded |-> str_casefold(string.string)]

\* other.casefold(): str.casefold, or the delegate that CaselessString adds
casefold_of(other) ==
    IF other.caseless THEN CaselessString(PyStr(str_casefold(other.string)))
    ELSE PyStr(str_casefold(other.string))

\* an __eq__ that compares the spellings
eq_as_spelled(self, other) == self.string = other.string

\* CaselessString.__eq__; a str == a CaselessString is answered by the
\* CaselessString's __eq__
RECURSIVE CaselessString_eq(_, _)
CaselessString_eq(self, other) ==
    LET folded == casefold_of(other) IN
    IF folded.caseless THEN CaselessString_eq(folded, PyStr(self.folded))
    ELSE self.folded = folded.string

\* CaselessString.__ne__
RECURSIVE CaselessString_ne(_, _)
CaselessString_ne(self, other) ==
    LET folded == casefold_of(other) IN
    IF folded.caseless THEN CaselessString_ne(folded, PyStr(self.folded))
    ELSE self.folded # folded.string

\* CaselessString.__gt__ and __lt__; a str < a CaselessString is answered by
\* the CaselessString's __gt__, a str > a CaselessString by its __lt__
CaselessString_gt(self, other) ==
    LET folded == casefold_of(other) IN
    IF folded.caseless THEN str_lt(folded.folded, str_casefold(self.folded))
    ELSE str_lt(folded.string, self.folded)

CaselessString_lt(self, other) ==
    LET folded == casefold_of(other) IN
    IF folded.caseless THEN CaselessString_gt(folded, PyStr(self.folded))
    ELSE str_lt(self.folded, folded.string)

\* hash of a str, as a polynomial of its characters
RECURSIVE str_hash(_)
str_hash(s) == IF s = <<>> THEN 0 ELSE (31 * str_hash(Tail(s)) + Head(s)) % 65536

\* CaselessString.__hash__
CaselessString_hash(self) == str_hash(self.folded)

\* ---- the strings explored

MaxChars == 2
MaxIdentifiers == 3

\* A, B, _ and a: _ sorts after the capitals and before the small letters
Characters == {65, 66, 95, 97}

Strings == UNION {[1..n -> Characters] : n \in 0..MaxChars}

NoComparison == [made |-> FALSE]

CaselessIdle ==
    /\ identifiers = <<>>
    /\ sources = <<>>
    /\ compared = NoComparison

\* CaselessString(string) of a str
ConstructFromStr ==
    /\ Len(identifiers) < MaxIdentifiers
    /\ \E string \in Strings :
         /\ identifiers' = Append(identifiers, CaselessString(PyStr(string)))
         /\ sources' = Append(sources, PyStr(string))
    /\ UNCHANGED compared
    /\ UNCHANGED <<mainVars, rules, exprVars, cycleVars, parseVars, backendVars, validateVars>>

\* CaselessString(string) of a CaselessString made before
ConstructFromCaseless ==
    /\ Len(identifiers) < MaxIdentifiers
    /\ \E i \in 1..Len(identifiers) :
         /\ identifiers' = Append(identifiers, CaselessString(identifiers[i]))
         /\ sources' = Append(sources, identifiers[i])
    /\ UNCHANGED compared
    /\ UNCHANGED <<mainVars, rules, exprVars, cycleVars, parseVars, backendVars, validateVars>>

\* self == other, self != other, self < other and the two hashes
Compare ==
    /\ \E i, j \in 1..Len(identifiers) :
         LET self == identifiers[i]
             other == identifiers[j]
         IN  compared' = [made |-> TRUE, self |-> self, other |-> other,
                          eq |-> CaselessString_eq(self, other),
                          ne |-> CaselessString_ne(self, other),
                          lt |-> CaselessString_lt(self, other),
                          hash_self |-> CaselessString_hash(self),
                          hash_other |-> CaselessString_hash(other)]
    /\ UNCHANGED <<identifiers, sources>>
    /\ UNCHANGED <<mainVars, rules, exprVars, cycleVars, parseVars, backendVars, validateVars>>

CaselessNext == ConstructFromStr \/ ConstructFromCaseless \/ Compare

----------------------------------------------------------------------------
(* Specifications                                                          *)

\* the states of the other components while one is explored alone
IdleExpr ==
    /\ exprParser = ParserInit(EmptyMap, EmptyMap, None, FALSE, EmptyMap)
    /\ acc = Err("")
    /\ depth = 0
    /\ last = NoApplication

IdleCycle ==
    /\ todo = {}
    /\ stack = <<>>
    /\ cycle = Running

\* no expression text is being parsed
IdleSide == ParseInit /\ BackendInit /\ ValidateIdle /\ CaselessIdle

\* no invocation of main is explored
NoDocuments == [constants |-> 0, parameters |-> 0, rules |-> 0, invocations |-> 0]

\* main's variables outside the cycle check, before a first invocation
MainFrame(at, lim) ==
    /\ pc = at
    /\ limits = lim
    /\ errors = 0
    /\ arguments = [check_cycles |-> TRUE, allow_regexp |-> FALSE]
    /\ constants = EmptyMap
    /\ functions = EmptyMap
    /\ parameters = EmptyMap
    /\ facts = EmptyMap
    /\ distincts = {}
    /\ todoDoc = [constants |-> 0, parameters |-> 0, rules |-> 0]
    /\ log = <<>>
    /\ domains = EmptyMap
    /\ indexes = EmptyMap
    /\ schema_file = None
    /\ exit_status = None
    /\ invocation = 0

\* the evaluator alone, over every leaf, operator and parser setting
InitExpr ==
    ExprInit /\ IdleCycle /\ IdleSide /\ MainFrame("idle", NoDocuments) /\ rules = EmptyMap

SpecExpr == InitExpr /\ [][ExprNext]_vars

\* main at the call of find_cycle(rules.keys(), find_reachable), for any rule IR
InitCycle ==
    /\ IdleExpr
    /\ IdleSide
    /\ MainFrame("find_cycle", NoDocuments)
    /\ rules \in CycleIRs
    /\ todo = DOMAIN rules
    /\ stack = <<>>
    /\ cycle = Running

CycleNext == FindCycleOuter \/ FindCycleInner \/ FindCycleNone

\* find_cycle alone, over every rule graph of three rules
SpecCycle == InitCycle /\ [][CycleNext]_vars

\* one compilation of any document within the bounds
Init ==
    /\ IdleExpr
    /\ IdleCycle
    /\ IdleSide
    /\ MainFrame("idle", [constants |-> MaxConstants, parameters |-> MaxParameters,
                          rules |-> MaxRules, invocations |-> 1])
    /\ rules = EmptyMap

Next ==
    \/ MainStart
    \/ EvaluateConstant
    \/ LoadFacts
    \/ EvaluateParameter
    \/ AnalyseRule
    \/ PostChecks
    \/ FindCycleOuter
    \/ FindCycleInner
    \/ FindCycleNone
    \/ ReportCycle
    \/ Emit

Spec == Init /\ [][Next]_vars

\* several compilations in one process, as the test suite runs them, of
\* documents of at most one constant, one parameter and one rule
InitRepeat ==
    /\ IdleExpr
    /\ IdleCycle
    /\ IdleSide
    /\ MainFrame("idle", [constants |-> 1, parameters |-> 1, rules |-> 1,
                          invocations |-> MaxInvocations])
    /\ rules = EmptyMap

SpecRepeat == InitRepeat /\ [][Next]_vars

\* parse alone, over every token stream of at most MaxTokens tokens
InitParse ==
    /\ IdleExpr
    /\ IdleCycle
    /\ MainFrame("idle", NoDocuments)
    /\ rules = EmptyMap
    /\ ParseInit
    /\ BackendInit
    /\ ValidateIdle
    /\ CaselessIdle

SpecParse == InitParse /\ [][ParseNext]_vars

\* generate from the reset of its globals on: any calls of add_index and of
\* generate_join, then the emission of the indexes
InitBackend ==
    /\ IdleExpr
    /\ IdleCycle
    /\ MainFrame("emit", NoDocuments)
    /\ rules = EmptyMap
    /\ ParseInit
    /\ BackendInit
    /\ ValidateIdle
    /\ CaselessIdle

SpecBackend == InitBackend /\ [][BackendNext]_vars

\* generate's calls of only_once alone
SpecOnce == InitBackend /\ [][OnceNext]_vars

\* one call of a Dictionary validator, over the validators and objects above
InitValidate ==
    /\ IdleExpr
    /\ IdleCycle
    /\ MainFrame("idle", NoDocuments)
    /\ rules = EmptyMap
    /\ ParseInit
    /\ BackendInit
    /\ ValidateInit
    /\ CaselessIdle

SpecValidate == InitValidate /\ [][ValidateNext]_vars

\* constructions and comparisons of CaselessStrings
InitCaseless ==
    /\ IdleExpr
    /\ IdleCycle
    /\ MainFrame("idle", NoDocuments)
    /\ rules = EmptyMap
    /\ ParseInit
    /\ BackendInit
    /\ ValidateIdle
    /\ CaselessIdle

SpecCaseless == InitCaseless /\ [][CaselessNext]_vars

----------------------------------------------------------------------------
(* Claims about the expression evaluator (under SpecExpr)                  *)

\* the operand types of the last application, read off the operands
LastTypes == [i \in 1..Len(last.args) |-> last.args[i].type]

\* the type tuples listed for the operator or function last applied
LastListed ==
    CASE last.kind = "binary" -> BinaryCombinations(last.op)
      [] last.kind = "unary" -> UnaryCombinations(last.op)
      [] last.kind = "builtin" -> FunctionCombinations(last.op)
      [] last.kind = "external" -> {DeclaredFunctions[last.op].Parameters}
      [] OTHER -> {}

RejectedByTypeCheck ==
    last.result \in {TypeError, Err("Invalid number of arguments to function"),
                     Err("Invalid type(s) for argument(s) to function")}

\* C9: every operator and every built-in or external function application
\* is checked against its listed type tuples with no promotion: operand
\* types that are not listed make the application fail, listed operand types
\* pass the type check; int + float and str + str are not listed for +.
C9_TypeCheckedAgainstListedTuples ==
    last.kind # "leaf" =>
        /\ LastTypes \notin LastListed => RejectedByTypeCheck
        /\ LastTypes \in LastListed => ~RejectedByTypeCheck
        /\ (last.kind = "binary" /\ last.op = "+"
              /\ LastTypes \in {<<"int", "float">>, <<"float", "int">>, <<"str", "str">>})
           => IsErr(last.result)

\* C9's case: 1 + 1.0 style application of + to an int and a float literal
C9_Witness_IntPlusFloatRejected ==
    /\ last.kind = "binary" /\ last.op = "+"
    /\ LastTypes = <<"int", "float">>
    /\ IsLit(last.args[1]) /\ IsLit(last.args[2])
    /\ last.result = TypeError

\* the last application had literal operands only, passed its type check and
\* was not a call of an external function
LastAllLiteral ==
    /\ last.kind \in {"binary", "unary", "builtin"}
    /\ \A i \in 1..Len(last.args) : IsLit(last.args[i])
    /\ LastTypes \in LastListed

LastSignatureReturn ==
    CASE last.kind = "binary" /\ last.op \in ArithmeticOps -> LastTypes[1]
      [] last.kind = "binary" /\ last.op = "." -> "str"
      [] last.kind = "binary" -> "bool"
      [] last.kind = "unary" -> LastTypes[1]
      [] last.kind = "builtin" /\ last.op \in {"string_of_bool", "string_of_real", "string_of_int"} -> "str"
      [] last.kind = "builtin" /\ last.op = "real_of_int" -> "float"
      [] last.kind = "builtin" /\ last.op \in {"int_of_real", "int_of_string"} -> "int"
      [] last.kind = "builtin" /\ last.op = "if" -> LastTypes[2]
      [] last.kind = "external" -> DeclaredFunctions[last.op].Returns
      [] OTHER -> ""

\* C10: the value a well-typed application returns (folded literal or node)
\* has the type of the operator's or function's return signature: + - * /
\* keep the operand type, % yields int, relational operators bool, . str.
C10_ResultTypeIsSignatureReturn ==
    (last.kind # "leaf" /\ ~IsErr(last.result)) =>
        last.result.type = LastSignatureReturn

\* C10 apart from the division of two int literals
C10_ResultTypeExceptIntDivision ==
    (last.kind # "leaf" /\ ~IsErr(last.result)
       /\ ~(last.op = "/" /\ LastTypes = <<"int", "int">>
              /\ IsLit(last.args[1]) /\ IsLit(last.args[2]))) =>
        last.result.type = LastSignatureReturn

----------------------------------------------------------------------------
(* Claims about the cycle check (under SpecCycle)                          *)

\* the rule graph as the claim states it: an edge from a to b when b
\* matches, positively or negatively, the fact that a produces or suppresses
GraphEdge(a, b) ==
    \/ /\ "produced_fact" \in DOMAIN rules[a]
       /\ \/ \E i \in 1..Len(rules[b].matches) : rules[b].matches[i].fact = rules[a].produced_fact
          \/ \E i \in 1..Len(rules[b].inverted_matches) :
                rules[b].inverted_matches[i].fact = rules[a].produced_fact
    \/ /\ "suppressed_fact" \in DOMAIN rules[a]
       /\ \/ \E i \in 1..Len(rules[b].matches) : rules[b].matches[i].fact = rules[a].suppressed_fact
          \/ \E i \in 1..Len(rules[b].inverted_matches) :
                rules[b].inverted_matches[i].fact = rules[a].suppressed_fact

\* a directed cycle: a closed walk a = w[1] -> w[2] -> ... -> w[n] -> a
GraphHasCycle ==
    \E n \in 1..Cardinality(DOMAIN rules) :
        \E w \in [1..n -> DOMAIN rules] :
            /\ \A i \in 1..(n - 1) : GraphEdge(w[i], w[i + 1])
            /\ GraphEdge(w[n], w[1])

\* C1: find_cycle returns None if and only if the rule graph has no directed
\* cycle; a rule that matches the fact it produces is a cycle of length one.
C1_NoneIffAcyclic ==
    cycle.returned => (cycle.is_none <=> ~GraphHasCycle)

\* C1's cases: a self-loop is reported, and so is a cycle through three rules
\* when no rule matches what it produces itself
C1_Witness_ThreeRuleCycleFound ==
    /\ cycle.returned /\ ~cycle.is_none
    /\ Len(cycle.value) = 3
    /\ \A r \in DOMAIN rules : ~GraphEdge(r, r)

\* C2: a list find_cycle returns is a cycle of the rule graph: non-empty,
\* without a repeated node, each node followed by one of its successors, and
\* the last node followed by the first.
C2_ReturnedListIsCycle ==
    (cycle.returned /\ ~cycle.is_none) =>
        LET c == cycle.value
        IN  /\ Len(c) >= 1
            /\ \A i, j \in 1..Len(c) : i # j => c[i] # c[j]
            /\ \A i \in 1..(Len(c) - 1) : GraphEdge(c[i], c[i + 1])
            /\ GraphEdge(c[Len(c)], c[1])

\* C2's case: a cycle was returned from a stack that held a node before it
C2_Witness_SuffixReturned ==
    /\ cycle.returned /\ ~cycle.is_none
    /\ Len(cycle.value) = 2
    /\ Len(stack) = 3

----------------------------------------------------------------------------
(* Claims about one compilation (under Spec)                               *)

Loaded == Processed("load") = 0
GenerateCalled == Processed("generate") > 0
Rendered == \E i \in DOMAIN log : log[i].section = "generate" /\ log[i].result = "ok"

\* C3: when main exits after analysis, a nonzero error count means that
\* generate was not called, nothing was written and the status is 1; a zero
\* count means generate was called, and if it rendered, the schema was
\* written and the status is 0.
C3_ErrorsSuppressEmission ==
    (pc = "exited" /\ Loaded) =>
        /\ errors > 0 => (~GenerateCalled /\ schema_file = None /\ exit_status = Some(1))
        /\ errors = 0 => GenerateCalled
        /\ (errors = 0 /\ Rendered) => (schema_file # None /\ exit_status = Some(0))

\* C3 happens: an exit with status 1 and no schema after a rule failed
C3_Witness_RuleErrorExitsOne ==
    /\ pc = "exited"
    /\ \E i \in DOMAIN log : log[i].section = "rules" /\ log[i].counted
    /\ exit_status = Some(1)
    /\ schema_file = None

\* C4: a pass of the rule loop whose rule raises adds exactly one to the
\* error count, leaves the rule out of the rule IR, leaves the rule IR, the
\* distinct set and the fact map as they were, and goes on to the next rule
\* (or, after the last one, to the checks that follow the loop).
C4_RuleErrorIsContained ==
    [][(pc = "rules" /\ Len(log') = Len(log) + 1 /\ log'[Len(log')].counted) =>
          /\ errors' = errors + 1
          /\ log'[Len(log')].name \notin DOMAIN rules'
          /\ rules' = rules
          /\ distincts' = distincts
          /\ facts' = facts
          /\ todoDoc'.rules = todoDoc.rules - 1
          /\ pc' = IF todoDoc'.rules > 0 THEN "rules" ELSE "post"]_vars

\* C4 happens: a rule failed, it is not in the IR, a later rule was analysed
\* and kept
C4_Witness_LaterRuleKept ==
    \E i, j \in DOMAIN log :
        /\ i < j
        /\ log[i].section = "rules" /\ log[i].counted /\ log[i].name \notin DOMAIN rules
        /\ log[j].section = "rules" /\ log[j].result = "ok" /\ log[j].name \in DOMAIN rules

\* C5: a constant or a parameter that fails is caught: main goes on (no
\* exception leaves it), the failure is counted, the name is left undefined
\* in constants and parameters, and the facts of the document stay defined.
C5_ConstantsAndParametersRecover ==
    /\ pc # "crashed"
    /\ \A i \in DOMAIN log :
          (log[i].section \in {"constants", "parameters"} /\ log[i].result # "ok") =>
              /\ log[i].counted
              /\ log[i].name \notin DOMAIN constants
              /\ log[i].name \notin DOMAIN parameters
    /\ (Loaded /\ pc \notin {"idle", "constants", "facts"}) =>
          DOMAIN DocumentFacts \subseteq DOMAIN facts

\* C7: no expression evaluated outside a match yields a Join node: the final
\* predicate and the produced fields of the rules kept hold none.
C7_NoJoinOutsideMatch ==
    \A r \in DOMAIN rules :
        /\ ~IsInstance(rules[r].final_predicate, "JoinNode")
        /\ "produced_fields" \in DOMAIN rules[r] =>
              \A f \in DOMAIN rules[r].produced_fields :
                  ~IsInstance(rules[r].produced_fields[f], "JoinNode")

\* the whens of the positive and negative matches of a rule record
Whens(rule_clause) ==
    {rule_clause.matches[i].when : i \in 1..Len(rule_clause.matches)}
    \cup {rule_clause.inverted_matches[i].when : i \in 1..Len(rule_clause.inverted_matches)}

\* C8: every when of every match, positive or negative, of every rule kept
\* in the rule IR is absent, a Join node, or a BinaryOp node whose left
\* argument is a This reference (so a rule with any other when was dropped).
C8_KeptWhensAreJoinable ==
    \A r \in DOMAIN rules : \A w \in Whens(rules[r]) :
        \/ w = None
        \/ IsInstance(w[1], "JoinNode")
        \/ (IsInstance(w[1], "BinaryOpNode") /\ IsInstance(w[1].arg1, "ThisReferenceNode"))

\* C8 happens: a rule with a Join when is kept and a rule whose when is not
\* joinable was dropped
C8_Witness_JoinKeptOtherDropped ==
    /\ \E r \in DOMAIN rules : \E w \in Whens(rules[r]) : w # None /\ IsInstance(w[1], "JoinNode")
    /\ \E i \in DOMAIN log :
          /\ log[i].section = "rules"
          /\ log[i].result = "Predicate of match is not a joinable predicate"
          /\ log[i].name \notin DOMAIN rules

\* the rule IR names f as the fact a rule produces or suppresses
ProducedOrSuppressed(f) ==
    \E r \in DOMAIN rules :
        \/ "produced_fact" \in DOMAIN rules[r] /\ rules[r].produced_fact = f
        \/ "suppressed_fact" \in DOMAIN rules[r] /\ rules[r].suppressed_fact = f

MatchedBySomeRule(f) == \E r \in DOMAIN rules : f \in MatchedFacts(rules[r])

FactsLoaded ==
    \/ pc \in {"parameters", "rules", "post", "find_cycle", "cycle_done", "emit"}
    \/ pc = "exited" /\ Loaded

PostChecked == pc \in {"find_cycle", "cycle_done", "emit"} \/ (pc = "exited" /\ Loaded)

\* C15: once the post checks have run, every fact that some rule of the IR
\* produces or suppresses and that no rule matches is an output fact; and
\* from the loading of the facts on, InitialFact and the facts declared
\* !output are output facts.
C15_OnlyProducedFactsAreOutput ==
    /\ PostChecked =>
         \A f \in FactNames \cup {"initialfact"} :
            (ProducedOrSuppressed(f) /\ ~MatchedBySomeRule(f)) =>
               (f \in DOMAIN facts /\ facts[f].is_output)
    /\ FactsLoaded =>
         /\ facts["initialfact"].is_output
         /\ \A f \in DOMAIN DocumentFacts :
               DocumentFacts[f].is_output => (f \in DOMAIN facts /\ facts[f].is_output)

\* C15 happens: fg, not declared !output, is produced and matched by no rule,
\* and main has ended with fg an output fact
C15_Witness_ProducedFactMarked ==
    /\ pc = "exited"
    /\ ~DocumentFacts["fg"].is_output
    /\ ProducedOrSuppressed("fg") /\ ~MatchedBySomeRule("fg")
    /\ facts["fg"].is_output

ProducesDistinctly(r, f) ==
    "produced_fact" \in DOMAIN rules[r] /\ rules[r].produced_fact = f /\ rules[r].distinct

Suppresses(r, f) == "suppressed_fact" \in DOMAIN rules[r] /\ rules[r].suppressed_fact = f

DistinctSuppressed ==
    \E f \in FactNames : \E r, q \in DOMAIN rules : ProducesDistinctly(r, f) /\ Suppresses(q, f)

\* C16: when the rule IR holds a rule that produces a fact distinctly and a
\* rule that suppresses this fact, in either order, the post checks report
\* it: the error count is not zero, and main ends without calling the
\* backend and without writing a schema.
C16_DistinctSuppressionIsAnError ==
    (PostChecked /\ DistinctSuppressed) =>
       /\ errors > 0
       /\ \E i \in DOMAIN log : log[i].result = "attempts to suppress distinct facts"
       /\ pc = "exited" => (~GenerateCalled /\ schema_file = None /\ exit_status = Some(1))

\* C16 happens: the first rule suppresses ff, the second produces ff
\* distinctly, and this was the only error of the compilation
C16_Witness_SuppressionBeforeProduction ==
    /\ pc = "exited"
    /\ DOMAIN rules = {"ra", "rb"}
    /\ Suppresses("ra", "ff") /\ ProducesDistinctly("rb", "ff")
    /\ errors = 1
    /\ schema_file = None

ParameterRefusals ==
    {"Parameter facts cannot be produced", "Parameter facts cannot be suppressed"}

\* C17: no rule of the IR produces or suppresses the implicit fact of a
\* parameter; a rule that tries is refused with a counted error and is not
\* in the IR.
C17_ParameterFactsAreReadOnly ==
    /\ \A r \in DOMAIN rules :
          /\ "produced_fact" \in DOMAIN rules[r] => rules[r].produced_fact \notin DOMAIN parameters
          /\ "suppressed_fact" \in DOMAIN rules[r] =>
                rules[r].suppressed_fact \notin DOMAIN parameters
    /\ \A i \in DOMAIN log :
          (log[i].section = "rules" /\ log[i].result \in ParameterRefusals) =>
             (log[i].counted /\ log[i].name \notin DOMAIN rules /\ errors > 0)

\* C17 happens: with the parameter pa defined, one rule that produces pa and
\* one that suppresses pa were refused, and the IR is empty
C17_Witness_BothRefused ==
    /\ "pa" \in DOMAIN parameters
    /\ \E i, j \in DOMAIN log :
          /\ log[i].result = "Parameter facts cannot be produced"
          /\ log[j].result = "Parameter facts cannot be suppressed"
    /\ DOMAIN rules = {}
    /\ pc = "exited"

ProductionRefusals ==
    {"Unknown field in production clause", "Field unassigned in production",
     "Result of expression and field type do not agree"}

\* C18: the produced_fields of every Assert rule of the IR has exactly the
\* fields of the produced fact as keys, each bound to a value of the field's
\* declared type; a rule that assigns an unknown field, leaves a field
\* unassigned or assigns a value of another type is refused with a counted
\* error and is not in the IR.
C18_ProducedFieldsMatchTheFact ==
    /\ \A r \in DOMAIN rules :
          "produced_fact" \in DOMAIN rules[r] =>
             /\ rules[r].produced_fact \in DOMAIN facts
             /\ DOMAIN rules[r].produced_fields = DOMAIN facts[rules[r].produced_fact].fields
             /\ \A f \in DOMAIN rules[r].produced_fields :
                   /\ ~IsErr(rules[r].produced_fields[f])
                   /\ TypeOf(rules[r].produced_fields[f]) =
                        facts[rules[r].produced_fact].fields[f]
    /\ \A i \in DOMAIN log :
          (log[i].section = "rules" /\ log[i].result \in ProductionRefusals) =>
             (log[i].counted /\ log[i].name \notin DOMAIN rules)

\* C18 happens: the first rule produces ff with x and y bound, the second
\* was refused for a field left unassigned
C18_Witness_BoundAndRefused ==
    /\ DOMAIN rules = {"ra"}
    /\ "produced_fact" \in DOMAIN rules["ra"]
    /\ rules["ra"].produced_fact = "ff"
    /\ DOMAIN rules["ra"].produced_fields = {"x", "y"}
    /\ \E i \in DOMAIN log :
          log[i].name = "rb" /\ log[i].result = "Field unassigned in production"

IsNumeric(x) == TypeOf(x) \in {"int", "float"}

\* C19: every parameter defined with an Int or Real default has both
\* limits, of the type of the default, with lower <= default <= upper; and a
\* parameter refused with a counted error defines neither a parameter nor
\* an implicit fact.
C19_NumericLimitsAgreeWithDefault ==
    /\ \A name \in DOMAIN parameters :
          IsNumeric(parameters[name].default) =>
             /\ parameters[name].lower # None /\ parameters[name].upper # None
             /\ TypeOf(parameters[name].lower[1]) = TypeOf(parameters[name].default)
             /\ TypeOf(parameters[name].upper[1]) = TypeOf(parameters[name].default)
             /\ ~LitLess(parameters[name].default, parameters[name].lower[1])
             /\ ~LitLess(parameters[name].upper[1], parameters[name].default)
    /\ \A i \in DOMAIN log :
          (log[i].section = "parameters" /\ log[i].counted) =>
             (log[i].name \notin DOMAIN parameters /\ log[i].name \notin DOMAIN facts)

----------------------------------------------------------------------------
(* Claims about compilations that follow one another (under SpecRepeat)    *)

\* C6: while an invocation runs and when it has ended, the error count is
\* the number of errors this invocation reported (it started from 0); and a
\* document that loads, reports no error and renders exits with status 0.
C6_InvocationStartsFromZero ==
    /\ pc # "idle" => errors = ErrorsLogged
    /\ (pc = "exited" /\ Loaded /\ ErrorsLogged = 0
          /\ ~(\E i \in DOMAIN log : log[i].result = "Compilation failed")) =>
          exit_status = Some(0)

----------------------------------------------------------------------------
(* Claims about the parser's grouping of operators (under SpecParse)       *)

IsOperand(t) == ~IsToken(t)
IsBinaryToken(t) == t.k = "OperatorToken" /\ t.name \in BinaryOperators
IsUnaryToken(t) == t.k = "OperatorToken" /\ t.name \in UnaryOperators

\* an application whose operand raised raises the same
Bin(op, x, y) ==
    IF IsErr(y) THEN y ELSE IF IsErr(x) THEN x ELSE ApplyBinary(ParseParser, op, x, y)

Un(op, x) == IF IsErr(x) THEN x ELSE ApplyUnary(op, x)

\* a op1 b op2 c
TwoBinary ==
    /\ Len(tokens) = 5
    /\ IsOperand(tokens[1]) /\ IsBinaryToken(tokens[2]) /\ IsOperand(tokens[3])
    /\ IsBinaryToken(tokens[4]) /\ IsOperand(tokens[5])

\* u a op b
UnaryFirst ==
    /\ Len(tokens) = 4
    /\ IsUnaryToken(tokens[1]) /\ IsOperand(tokens[2])
    /\ IsBinaryToken(tokens[3]) /\ IsOperand(tokens[4])

\* a op u b
UnarySecond ==
    /\ Len(tokens) = 4
    /\ IsOperand(tokens[1]) /\ IsBinaryToken(tokens[2])
    /\ IsUnaryToken(tokens[3]) /\ IsOperand(tokens[4])

\* C12: parse applies the operator of the larger precedence number first,
\* operators of equal precedence from left to right, and a unary operator to
\* its operand before any binary operator: a op1 b op2 c is a op1 (b op2 c)
\* when op2 has the larger precedence and (a op1 b) op2 c otherwise; u a op b
\* is (u a) op b and a op u b is a op (u b).
C12_PrecedenceAndLeftAssociativity ==
    parsed # None =>
      /\ TwoBinary =>
           parsed[1] =
             IF BinaryPrecedence(tokens[4].name) > BinaryPrecedence(tokens[2].name)
             THEN Bin(tokens[2].name, tokens[1],
                      Bin(tokens[4].name, tokens[3], tokens[5]))
             ELSE Bin(tokens[4].name,
                      Bin(tokens[2].name, tokens[1], tokens[3]), tokens[5])
      /\ UnaryFirst =>
           parsed[1] = Bin(tokens[3].name, Un(tokens[1].name, tokens[2]), tokens[4])
      /\ UnarySecond =>
           parsed[1] = Bin(tokens[2].name, tokens[1], Un(tokens[3].name, tokens[4]))

\* C12 happens: 1 + 2 * 3 was parsed and gave 7
C12_Witness_ProductBeforeSum ==
    /\ tokens = <<IntLit(1), OperatorToken("+"), IntLit(2), OperatorToken("*"), IntLit(3)>>
    /\ parsed = Some(IntLit(7))

----------------------------------------------------------------------------
(* Claims about the index demands (under SpecBackend)                      *)

Lowered(path) == [i \in 1..Len(path) |-> str_lower(path[i])]

IsPrefix(p, q) == Len(p) <= Len(q) /\ SubSeq(q, 1, Len(p)) = p
IsProperPrefix(p, q) == Len(p) < Len(q) /\ IsPrefix(p, q)

\* the non-empty demands recorded and the indexes emitted, fields in lower case
Demanded ==
    {[table |-> demands[i].table[1], fields |-> Lowered(demands[i].fields)] :
        i \in {j \in 1..Len(demands) : Len(demands[j].fields) > 0}}

Emitted ==
    {[table |-> emitted[1][i].table, fields |-> Lowered(emitted[1][i].path)] :
        i \in 1..Len(emitted[1])}

Subsumed(d, set) ==
    \E e \in set : e.table = d.table /\ IsProperPrefix(d.fields, e.fields)

\* C13: the indexes emitted are exactly the demands that are not a proper
\* prefix of another demand for the same table, fields compared without
\* case: each index is emitted once, every non-empty demand is a prefix of
\* an emitted index and no emitted index is a proper prefix of another.  The
\* emitted set is a function of the set of demands, so not of their order.
C13_EmittedAreMaximalDemands ==
    emitted # None =>
      /\ Emitted = {d \in Demanded : ~Subsumed(d, Demanded)}
      /\ Cardinality(Emitted) = Len(emitted[1])
      /\ \A d \in Demanded :
            \E e \in Emitted : e.table = d.table /\ IsPrefix(d.fields, e.fields)
      /\ \A e \in Emitted : ~Subsumed(e, Emitted)

\* C13 happens: T(A,b) then t(a) were demanded and one index was emitted
C13_Witness_PrefixAbsorbed ==
    /\ demands = <<Demand(Some("t"), <<"A", "b">>), Demand(Some("t"), <<"a">>)>>
    /\ emitted = Some(<<[index_number |-> 1, table |-> "t", path |-> <<"A", "b">>]>>)

JoinEqualities == SelectSeq(last_join.result[1], IsEquality)
JoinInequalities == SelectSeq(last_join.result[1], IsInequality)

IsSorted(predicates) ==
    \A i, j \in 1..Len(predicates) : i < j => SortKey(predicates[i]) <= SortKey(predicates[j])

\* the demands the last join recorded for a table
MadeFor(table) == SelectSeq(last_join.made, LAMBDA d : d.table = table)

----------------------------------------------------------------------------
(* Claims about the cycle check of a compilation (under Spec)              *)

CycleReported == \E i \in DOMAIN log : log[i].section = "cycle" /\ log[i].counted

\* C23: when main exits after analysis with the cycle check enabled and the
\* graph of the rules kept has a cycle, the cycle was counted as an error,
\* the status is 1 and no schema was written; with -c find_cycle was not
\* called and no cycle was reported, and if nothing else was counted the
\* backend was called, and what it rendered was written with status 0.
C23_CycleIsAnErrorUnlessAllowed ==
    (pc = "exited" /\ Loaded) =>
        /\ (arguments.check_cycles /\ GraphHasCycle) =>
              /\ CycleReported /\ errors > 0
              /\ exit_status = Some(1)
              /\ schema_file = None
        /\ ~arguments.check_cycles =>
              /\ cycle = Running /\ ~CycleReported
              /\ errors = 0 => GenerateCalled
              /\ (errors = 0 /\ Rendered) => (schema_file # None /\ exit_status = Some(0))

\* C23 happens: with -c, two rules that feed each other were emitted with
\* status 0
C23_Witness_CycleEmittedWhenAllowed ==
    /\ pc = "exited" /\ Loaded
    /\ ~arguments.check_cycles
    /\ DOMAIN rules = {"ra", "rb"}
    /\ GraphEdge("ra", "rb") /\ GraphEdge("rb", "ra")
    /\ errors = 0
    /\ schema_file # None /\ exit_status = Some(0)

----------------------------------------------------------------------------
(* Claims about what generate does to the fact map and the rule IR (under  *)
(* Spec)                                                                   *)

\* the step of main that calls generate
GenerateStep == pc = "emit" /\ errors = 0 /\ pc' = "exited"

\* C24: generate leaves the fact map, the rule IR (the locals of each rule,
\* the assignments of each match) and the nodes they hold as main passed
\* them.
C24_GenerateLeavesAnalysisUnchanged ==
    [][GenerateStep => (facts' = facts /\ rules' = rules)]_vars

\* the leaves of a when, through its Join nodes, from left to right
RECURSIVE WhenLeaves(_)
WhenLeaves(when) ==
    IF when.k = "JoinNode" THEN WhenLeaves(when.left) \o WhenLeaves(when.right) ELSE <<when>>

LeavesOf(clause) == IF clause.when = None THEN <<>> ELSE WhenLeaves(clause.when[1])

\* the locals an expression refers to
RECURSIVE LocalsIn(_)
LocalsIn(x) ==
    CASE x.k = "LocalReferenceNode" -> {x.variable}
      [] x.k = "BinaryOpNode" -> LocalsIn(x.arg1) \cup LocalsIn(x.arg2)
      [] x.k = "UnaryOpNode" -> LocalsIn(x.arg1)
      [] x.k = "CastNode" -> LocalsIn(x.expression)
      [] x.k = "FunctionNode" -> UNION {LocalsIn(x.args[i]) : i \in 1..Len(x.args)}
      [] x.k = "IfNode" -> LocalsIn(x.predicate) \cup LocalsIn(x.if_true) \cup LocalsIn(x.if_false)
      [] OTHER -> {}

\* a predicate of a when whose right-hand side is a compound expression
\* that refers to a local assigned by positive match i of the rule
NeedsSynthetic(rule, leaf, i) ==
    /\ leaf.k = "BinaryOpNode" /\ leaf.type = "bool"
    /\ leaf.arg1.k = "ThisReferenceNode"
    /\ leaf.arg2.k \notin {"LocalReferenceNode", "lit"}
    /\ LocalsIn(leaf.arg2) \cap DOMAIN rule.matches[i].assignments # {}

Feeds(rule, leaf, i) ==
    /\ NeedsSynthetic(rule, leaf, i)
    /\ \A h \in 1..(i - 1) : ~NeedsSynthetic(rule, leaf, h)

IsSyntheticName(name) == \E n \in 1..Len(SyntheticNames) : SyntheticNames[n] = name

\* C25: when generate is called, for every rule, every clause c after the
\* positive match i and every predicate of c's when whose right-hand side
\* is a compound expression over a local that match i is the first to
\* assign: no IndexError is raised, the right-hand side becomes a reference
\* to a synthetic local of the same type, and that local is added to the
\* assignments of match i and of no other match.
C25_SyntheticGoesToFeedingMatch ==
    [][GenerateStep =>
         \A r \in DOMAIN rules :
            \A i \in 1..Len(rules[r].matches) :
               \A c \in (i + 1)..Len(AllMatches(rules[r])) :
                  \A l \in 1..Len(LeavesOf(AllMatches(rules[r])[c])) :
                     Feeds(rules[r], LeavesOf(AllMatches(rules[r])[c])[l], i) =>
                        /\ log'[Len(log')].result # "IndexError"
                        /\ LET before == LeavesOf(AllMatches(rules[r])[c])[l]
                               after == LeavesOf(AllMatches(rules'[r])[c])[l]
                           IN  /\ after.arg2.k = "LocalReferenceNode"
                               /\ IsSyntheticName(after.arg2.variable)
                               /\ after.arg2.type = before.arg2.type
                               /\ after.arg2.variable \in DOMAIN rules'[r].matches[i].assignments
                               /\ \A h \in 1..Len(rules'[r].matches) :
                                     h # i => after.arg2.variable
                                                \notin DOMAIN rules'[r].matches[h].assignments]_vars

----------------------------------------------------------------------------
(* Claims about only_once (under SpecOnce)                                 *)

\* an earlier call with the same value for the same domain, whatever the
\* case of the domain's letters
PrintedBefore(n) ==
    \E m \in 1..(n - 1) :
        /\ Lowered(<<printed[m].domain>>) = Lowered(<<printed[n].domain>>)
        /\ printed[m].value = printed[n].value

\* C26: in one compilation every only_once call returns its value if no
\* earlier call had the same value and the same domain, compared without
\* case, and the empty string otherwise; calls for other domains do not
\* matter.
C26_OnlyOncePerDomainAndValue ==
    \A n \in 1..Len(printed) :
        printed[n].returned = IF PrintedBefore(n) THEN "" ELSE printed[n].value

\* C26 happens: v was printed for d, then for t, and not again for D
C26_Witness_SecondCallEmpty ==
    printed = <<[domain |-> "d", value |-> "v", returned |-> "v"],
                [domain |-> "t", value |-> "v", returned |-> "v"],
                [domain |-> "D", value |-> "v", returned |-> ""]>>

----------------------------------------------------------------------------
(* Claims about the Dictionary validator (under SpecValidate)              *)

\* a dict was given to a validator made with case_sensitive=False and
\* without allow_dups
CaselessCall ==
    /\ checked # None
    /\ ~IsList(validator)
    /\ ~validator.case_sensitive
    /\ ~validator.allow_duplicates
    /\ checked[1].given.k = "dict"

GivenItems == checked[1].given.items

\* a key as case folding sees it
Folded(key) == <<key.type, str_lower(key.string)>>

NamesOf(d) == {Folded(d[i].key) : i \in 1..Len(d)}

FoldedTwice ==
    \E i, j \in 1..Len(GivenItems) :
        i # j /\ Folded(GivenItems[i].key) = Folded(GivenItems[j].key)

RequiredMissing == \E name \in NamesOf(validator.required) : name \notin NamesOf(GivenItems)

\* a key that is not required, not optional, and either no extra keys are
\* taken or the validator of their names refuses it
NotAllowed(key) ==
    /\ Folded(key) \notin NamesOf(validator.required) \cup NamesOf(validator.optional)
    /\ \/ validator.extra = None
       \/ validator.extra_keys = Some("ValidName") /\ key.string \notin Names

\* C20: a Dictionary made with case_sensitive=False and without allow_dups
\* raises when two keys of the given dict are equal under case folding, when
\* a required key is missing and when a key is neither required, optional
\* nor an allowed extra; when it returns, every key of the returned dict is
\* a CaselessString and the given dict is as it was.
C20_CaselessDictionary ==
    CaselessCall =>
      /\ (FoldedTwice \/ RequiredMissing
            \/ \E i \in 1..Len(GivenItems) : NotAllowed(GivenItems[i].key))
           => ~checked[1].outcome.ok
      /\ checked[1].outcome.ok =>
           /\ \A i \in 1..Len(checked[1].outcome.value) :
                  checked[1].outcome.value[i].key.caseless
           /\ obj = checked[1].given

\* C20 happens: {FACT: "a", zz: "a"} given to a validator that requires Fact
\* and takes extra keys came back keyed by CaselessStrings
C20_Witness_FoldedKeysReturned ==
    /\ CaselessCall
    /\ GivenItems = <<Item(StrKey("FACT"), StrLit(<<97>>)), Item(StrKey("zz"), StrLit(<<97>>))>>
    /\ checked[1].outcome
         = Valid(<<Item(CS(StrKey("FACT")), StrLit(<<97>>)), Item(CS(StrKey("zz")), StrLit(<<97>>))>>)

----------------------------------------------------------------------------
(* Claims about the List validator (under SpecValidate)                    *)

\* a list whose members all pass was given to a List with both lengths set
BoundedListCall ==
    /\ checked # None
    /\ IsList(validator)
    /\ checked[1].given.k = "list"
    /\ validator.min_length # None /\ validator.max_length # None
    /\ \A i \in 1..Len(checked[1].given.items) :
           call_validator(validator.members, checked[1].given.items[i]).ok

\* C21: a List with a minimum and a maximum length returns for a list whose
\* members all pass exactly when min <= length <= max, and raises for every
\* longer and every shorter list.
C21_ListAcceptedWithinBounds ==
    BoundedListCall =>
      (checked[1].outcome.ok
         <=> /\ validator.min_length[1] <= Len(checked[1].given.items)
             /\ Len(checked[1].given.items) <= validator.max_length[1])

----------------------------------------------------------------------------
(* Claims about identifiers (under SpecCaseless)                           *)

\* the folded form of a spelling
FoldedForm(s) == [i \in 1..Len(s) |-> IF s[i] >= 65 /\ s[i] <= 90 THEN s[i] + 32 ELSE s[i]]

\* the first place where two spellings differ, or 0
FirstDifference(s, t) ==
    IF \A i \in 1..Len(s) : i <= Len(t) /\ s[i] = t[i] THEN 0
    ELSE CHOOSE i \in 1..Len(s) :
             /\ i > Len(t) \/ s[i] # t[i]
             /\ \A j \in 1..(i - 1) : s[j] = t[j]

\* s comes before t in the order of the code points
Before(s, t) ==
    IF FirstDifference(s, t) = 0 THEN Len(s) < Len(t)
    ELSE FirstDifference(s, t) <= Len(t) /\ s[FirstDifference(s, t)] < t[FirstDifference(s, t)]

\* C22: for two identifiers a and b, a == b holds iff their folded forms are
\* equal, a != b is its negation, equal identifiers have equal hashes, a < b
\* is the order of the folded forms, and an identifier constructed from an
\* identifier displays as the original does.
C22_IdentifiersCompareFolded ==
    /\ compared.made =>
         /\ compared.eq <=> FoldedForm(compared.self.string) = FoldedForm(compared.other.string)
         /\ compared.ne <=> ~compared.eq
         /\ compared.eq => compared.hash_self = compared.hash_other
         /\ compared.lt <=> Before(FoldedForm(compared.self.string),
                                   FoldedForm(compared.other.string))
    /\ \A i \in 1..Len(identifiers) :
           sources[i].caseless => identifiers[i].string = sources[i].string

\* C22 happens: the identifier cloned from CaselessString("B") still
\* displays as "B", and it is not less than "_" although the spelling "B"
\* comes before "_": the folded "b" comes after it
C22_Witness_CloneComparedFolded ==
    /\ compared.made
    /\ Len(identifiers) = 3
    /\ sources[3] = identifiers[1]
    /\ identifiers[1].string = <<66>>
    /\ identifiers[2].string = <<95>>
    /\ compared.self = identifiers[3] /\ compared.other = identifiers[2]
    /\ ~compared.lt /\ ~compared.eq /\ compared.ne

\* ---- Claims about the join's predicates ----

\* how many leaves of the Join tree n are the test t
RECURSIVE Occurrences(_, _)
Occurrences(n, t) ==
    IF n.k = "JoinNode" THEN Occurrences(n.left, t) + Occurrences(n.right, t)
    ELSE IF n = t THEN 1 ELSE 0

\* the leaves of the Join tree n
RECURSIVE JoinLeaves(_)
JoinLeaves(n) ==
    IF n.k = "JoinNode" THEN JoinLeaves(n.left) \cup JoinLeaves(n.right) ELSE {n}

\* a leaf the join selects: a boolean test of a field of the fact, against a
\* constant only when constants are included
SelectedLeaf(t) ==
    /\ t.k = "BinaryOpNode"
    /\ t.type = "bool"
    /\ t.arg1.k = "ThisReferenceNode"
    /\ (last_join.include_constants \/ ~IsLit(t.arg2))

SelectedLeaves ==
    IF last_join.when = None THEN {}
    ELSE {t \in JoinLeaves(last_join.when[1]) : SelectedLeaf(t)}

EmittedTimes(t) ==
    Cardinality({i \in 1..Len(last_join.result[1]) : last_join.result[1][i] = t})

\* C27: a generate_join that returned gave None exactly when no leaf of the
\* Join tree is selected; otherwise every selected leaf is in the result as
\* often as it is in the tree and nothing else is, no equality comes after an
\* inequality, and within the equalities and within the inequalities the
\* lower-cased lhs field names do not decrease.
C27_JoinEmitsEverySelectedLeaf ==
    (last_join.called /\ ~last_join.raised) =>
      /\ last_join.result = None <=> SelectedLeaves = {}
      /\ last_join.result # None =>
            /\ \A t \in SelectedLeaves :
                   EmittedTimes(t) = Occurrences(last_join.when[1], t)
            /\ \A i \in 1..Len(last_join.result[1]) :
                   last_join.result[1][i] \in SelectedLeaves
            /\ \A i, j \in 1..Len(last_join.result[1]) :
                   i < j =>
                     /\ IsInequality(last_join.result[1][i])
                           => IsInequality(last_join.result[1][j])
                     /\ IsEquality(last_join.result[1][i])
                             = IsEquality(last_join.result[1][j])
                           => SortKey(last_join.result[1][i])
                                <= SortKey(last_join.result[1][j])

\* C27 happens: the join of (a = x, b > y) and a < 2 with constants included
\* returned the equality first and then the two inequalities, a < 2 ahead of
\* b > y although it is written after it
C27_Witness_ThreeLeavesReordered ==
    /\ last_join.called /\ ~last_join.raised
    /\ last_join.when = Some(JoinNode(JoinNode(EqAX, GtBY), LtATwo))
    /\ last_join.include_constants
    /\ last_join.result = Some(<<EqAX, LtATwo, GtBY>>)

\* ---- Claims about the scope of a rule's locals ----

\* the locals the source of a document value names
RECURSIVE SrcLocals(_)
SrcLocals(src) ==
    CASE src.e = "local" -> {src.name}
      [] src.e = "bin" -> SrcLocals(src.l) \cup SrcLocals(src.r)
      [] src.e = "un" -> SrcLocals(src.a)
      [] src.e = "call" -> UNION {SrcLocals(src.args[i]) : i \in 1..Len(src.args)}
      [] OTHER -> {}

ValueLocals(value) == IF value.delayed THEN SrcLocals(value.expression) ELSE {}

\* the names the Assign of a match clause gives
AssignNames(match_clause) ==
    IF "Assign" \in DOMAIN match_clause
    THEN {match_clause.Assign[i].name : i \in 1..Len(match_clause.Assign)}
    ELSE {}

\* the names the Assigns of the positive matches before match k give
AssignedBefore(rule_clause, k) ==
    UNION {AssignNames(rule_clause.MatchAll[i]) : i \in 1..(k - 1)}

\* the When of a positive match names a local no earlier match assigns
TestsUnboundLocal(rule_clause) ==
    \E k \in 1..Len(rule_clause.MatchAll) :
        /\ "When" \in DOMAIN rule_clause.MatchAll[k]
        /\ ~(ValueLocals(rule_clause.MatchAll[k].When) \subseteq AssignedBefore(rule_clause, k))

\* a positive match assigns a name an earlier match has assigned
AssignsTwice(rule_clause) ==
    \E k \in 1..Len(rule_clause.MatchAll) :
        AssignNames(rule_clause.MatchAll[k]) \cap AssignedBefore(rule_clause, k) # {}

IsEnabled(rule_clause) == "Enabled" \notin DOMAIN rule_clause \/ rule_clause.Enabled

\* the locals an evaluated when refers to, through its Join nodes
WhenLocals(when) ==
    IF when = None THEN {}
    ELSE UNION {LocalsIn(WhenLeaves(when[1])[i]) : i \in 1..Len(WhenLeaves(when[1]))}

\* the locals the positive matches before match k of a rule record assign
BoundBefore(rule, k) == UNION {DOMAIN rule.matches[i].assignments : i \in 1..(k - 1)}

\* the rule IR as the analysis leaves it, before it is generated from
Analysing == pc \in {"rules", "post", "emit"}

\* C28: in every rule the analysis kept, the when of positive match k names
\* only locals assigned by the positive matches before k, the negative
\* matches and the final predicate name only locals of the rule, the locals
\* of the rule are those its positive matches assign, and no two positive
\* matches assign the same name; and a rule clause whose positive match
\* tests a local that no earlier match of the clause assigns, or assigns a
\* name an earlier match of the clause assigns, is raised on, whatever the
\* rules before it hold.
C28_LocalsBoundInMatchOrder ==
    /\ Analysing =>
         \A r \in DOMAIN rules :
            /\ \A k \in 1..Len(rules[r].matches) :
                  /\ WhenLocals(rules[r].matches[k].when) \subseteq BoundBefore(rules[r], k)
                  /\ DOMAIN rules[r].matches[k].assignments \cap BoundBefore(rules[r], k) = {}
            /\ \A k \in 1..Len(rules[r].inverted_matches) :
                  WhenLocals(rules[r].inverted_matches[k].when) \subseteq DOMAIN rules[r].locals
            /\ LocalsIn(rules[r].final_predicate) \subseteq DOMAIN rules[r].locals
            /\ DOMAIN rules[r].locals = BoundBefore(rules[r], Len(rules[r].matches) + 1)
    /\ pc = "rules" =>
         \A rule_clause \in RuleClauses :
            (IsEnabled(rule_clause)
               /\ (TestsUnboundLocal(rule_clause) \/ AssignsTwice(rule_clause)))
              => ~analyse_rule(MainScope, facts, parameters, rule_clause).ok

\* C28 happens: the first rule is kept, its second match testing the local
\* its first match assigns, and the second rule, which tests a local of
\* that name without assigning it before, was dropped for an unknown
\* variable
C28_Witness_EarlierLocalSeenLaterNot ==
    /\ pc = "post"
    /\ "ra" \in DOMAIN rules
    /\ Len(rules["ra"].matches) = 2
    /\ WhenLocals(rules["ra"].matches[2].when) = {"n"}
    /\ DOMAIN rules["ra"].matches[1].assignments = {"n"}
    /\ "rb" \notin DOMAIN rules
    /\ \E i \in DOMAIN log :
          /\ log[i].section = "rules" /\ log[i].name = "rb"
          /\ log[i].result = "Unknown variable" /\ log[i].counted

\* ---- Claims about what parse returns ----

\* the number of parentheses open after the first i tokens
RECURSIVE ParenDepth(_)
ParenDepth(i) ==
    IF i = 0 THEN 0
    ELSE ParenDepth(i - 1)
           + (IF tokens[i].k = "OpenParenToken" THEN 1
              ELSE IF tokens[i].k = "CloseParenToken" THEN -1 ELSE 0)

\* every close parenthesis closes an open one and none stays open
Balanced ==
    /\ \A i \in 1..Len(tokens) : ParenDepth(i) >= 0
    /\ ParenDepth(Len(tokens)) = 0

\* the open parenthesis that encloses token i most closely, 0 for none
Opener(i) ==
    LET opens == {j \in 1..(i - 1) :
                     /\ tokens[j].k = "OpenParenToken"
                     /\ ParenDepth(j) = ParenDepth(i - 1)
                     /\ \A m \in j..(i - 1) : ParenDepth(m) >= ParenDepth(j)}
    IN  IF opens = {} THEN 0 ELSE CHOOSE j \in opens : \A m \in opens : m <= j

\* an argument separator that is not between the parentheses of a call
SeparatorOutsideCall ==
    \E i \in 1..Len(tokens) :
        /\ tokens[i].k = "ArgumentSeparatorToken"
        /\ \/ Opener(i) <= 1
           \/ tokens[Opener(i) - 1].k # "FunctionToken"

\* two operands with no token between them
AdjacentOperands ==
    \E i \in 1..(Len(tokens) - 1) : IsOperand(tokens[i]) /\ IsOperand(tokens[i + 1])

\* an operator with nothing to its right: it is the last token, or a close
\* parenthesis or an argument separator follows it
OperatorLacksOperand ==
    \E i \in 1..Len(tokens) :
        /\ tokens[i].k = "OperatorToken"
        /\ \/ i = Len(tokens)
           \/ tokens[i + 1].k \in {"CloseParenToken", "ArgumentSeparatorToken"}

ParseReturned == parsed # None /\ ~IsErr(parsed[1])

\* C29: parse returns a value only for a token stream whose parentheses are
\* balanced, that has no argument separator outside the parentheses of a
\* call, no two adjacent operands and no operator without an operand to its
\* right: any of these ends in an error.
C29_ParseRejectsMalformedStreams ==
    ParseReturned =>
      /\ Balanced
      /\ ~SeparatorOutsideCall
      /\ ~AdjacentOperands
      /\ ~OperatorLacksOperand

\* ---- Claims about the leaves of the whens kept ----

\* a test generate_join can emit: a boolean BinaryOp on a field of the fact
IsJoinTest(n) ==
    /\ n.k = "BinaryOpNode"
    /\ n.type = "bool"
    /\ n.arg1.k = "ThisReferenceNode"

\* C30: while the analysis holds the rule IR, every leaf of the Join tree of
\* every when of every match kept, positive or negative, is a boolean
\* BinaryOp whose left argument is a This reference, and generate_join's
\* flatten, constants included, keeps as many tests as the when has leaves.
C30_EveryJoinLeafIsEmitted ==
    Analysing =>
      \A r \in DOMAIN rules : \A w \in Whens(rules[r]) :
          w # None =>
            /\ \A i \in 1..Len(WhenLeaves(w[1])) : IsJoinTest(WhenLeaves(w[1])[i])
            /\ Len(flatten(w[1], TRUE)) = Len(WhenLeaves(w[1]))

====
